---------------------------- MODULE Spec2Model ----------------------------
(***************************************************************************)
(* A model of go-wormhole-server: the rendezvous relay (store, Mailbox,    *)
(* Application, Service, Client session) and the transit relay (Client,    *)
(* matcher).                                                               *)
(*                                                                         *)
(* Modelling level.  The durable store is modelled as relational tables;   *)
(* every SQL statement is modelled by its text: the table, the WHERE       *)
(* clause with each numbered placeholder bound to the argument of that     *)
(* number, and the SET / VALUES list.  Store I/O failures, the number of   *)
(* columns a Scan expects and the tables the schema lacks are not          *)
(* modelled.  Strings are tuples of one-character strings, so the decimal  *)
(* conversion of nameplates (strconv.Itoa) is computed, and a side can be  *)
(* compared with a nameplate.                                              *)
(*                                                                         *)
(* Handlers run on one goroutine per connection.  A handler is one atomic  *)
(* action except where the code reads or writes shared state in several    *)
(* unsynchronised steps that another goroutine can interleave with:        *)
(* AllocateNameplate (FindNameplate, then ClaimNameplate), AddMessage      *)
(* (INSERT, then broadcast) and the transit connectWith.                   *)
(*                                                                         *)
(* The variable hist records what was called and what came of it; no       *)
(* action reads it.                                                        *)
(***************************************************************************)
EXTENDS Integers, Sequences, FiniteSets, TLC

(***************************************************************************)
(* Bounds of the model.                                                    *)
(***************************************************************************)
\* inbound frames the relay sessions process in total, in a scenario of
\* well-behaved clients
MaxFrames == 6
\* the same, in the scenario whose clients send every kind of frame
MaxAnyFrames == 3
\* largest value of the clock (time.Now().Unix(), in abstract units)
MaxTime == 1
\* how many of the first available indices a random draw may yield
RandChoices == 1
\* lines the transit connections deliver in total
MaxLines == 4
\* transit peers that hang up
MaxHangups == 1
\* the capacity of a sendBuffer in the scenario that fills one
SlowCap == 4
\* calls of Application methods made in the specification of direct calls
MaxCalls == 4

\* relay sessions (websocket connections)
Clients == {"c1", "c2", "c3"}
\* the application ids a session may bind to
AppIds == {<<"a">>}
\* the side each session presents in bind
SideOf(c) == CASE c = "c1" -> <<"L">> [] c = "c2" -> <<"R">> [] OTHER -> <<"X">>
\* mailbox ids a client may name without having been told one
GuessedMailboxes == {<<"m">>}
\* nameplates a client may name in claim
ClaimNames == {<<"1">>}

EMPTY == <<>>
NoClient == "-"

(***************************************************************************)
(* strconv.Itoa on non-negative integers.                                  *)
(***************************************************************************)
DigitChar(d) == <<"0", "1", "2", "3", "4", "5", "6", "7", "8", "9">>[d + 1]

RECURSIVE Itoa(_)
Itoa(n) == IF n < 10 THEN <<DigitChar(n)>>
           ELSE Itoa(n \div 10) \o <<DigitChar(n % 10)>>

RECURSIVE Pow10(_)
Pow10(i) == IF i = 0 THEN 1 ELSE 10 * Pow10(i - 1)

Min(a, b) == IF a < b THEN a ELSE b

(***************************************************************************)
(* The store.  A store value s is a record of the five tables, the         *)
(* autoincrement of nameplates.id, and the number of mailbox ids           *)
(* generated so far.                                                       *)
(***************************************************************************)
EmptyStore ==
    [ nameplates      |-> {},
      nameplate_sides |-> {},
      mailboxes       |-> {},
      mailbox_sides   |-> {},
      messages        |-> <<>>,
      np_seq          |-> 0,
      mb_seq          |-> 0 ]

\* generateMailboxID: a fresh random identifier
generateMailboxID(s) == <<"g">> \o Itoa(s.mb_seq + 1)

\* Mailbox.Touch: UPDATE mailboxes SET updated=now WHERE id
Touch(s, id, now) ==
    [s EXCEPT !.mailboxes =
        { IF m.id = id THEN [m EXCEPT !.updated = now] ELSE m : m \in s.mailboxes }]

\* Application.AddMailbox: insert the mailbox row if (app_id, id) has none
AddMailbox(s, app, id, forNameplate, now) ==
    IF \E m \in s.mailboxes : m.app_id = app /\ m.id = id
    THEN s
    ELSE [s EXCEPT !.mailboxes = @ \cup
            {[id |-> id, app_id |-> app, updated |-> now, for_nameplate |-> forNameplate]}]

\* Mailbox.Open: insert the side row with opened=true if absent, then Touch
MailboxOpen(s, id, side, now) ==
    LET s1 == IF \E r \in s.mailbox_sides : r.mailbox_id = id /\ r.side = side
              THEN s
              ELSE [s EXCEPT !.mailbox_sides = @ \cup
                      {[mailbox_id |-> id, opened |-> TRUE, side |-> side, mood |-> EMPTY]}]
    IN  Touch(s1, id, now)

\* the post-insert count of Application.OpenMailbox
MailboxSidesCrowded(s, id) ==
    Cardinality({r \in s.mailbox_sides : r.mailbox_id = id}) > 2

\* Application.OpenMailbox: AddMailbox, Mailbox.Open, then the count.
\* The in-memory Mailbox is entered in a.Mailboxes by the caller's action.
OpenMailbox(s, app, id, side, now) ==
    LET s1 == AddMailbox(s, app, id, FALSE, now)
        s2 == MailboxOpen(s1, id, side, now)
    IN  [ s   |-> s2,
          err |-> IF MailboxSidesCrowded(s2, id) THEN "MailboxCrowded" ELSE "" ]

\* the post-insert count of Application.ClaimNameplate
NameplateSidesCrowded(s, npid) ==
    Cardinality({r \in s.nameplate_sides : r.nameplate_id = npid}) > 2

\* the rowid SQLite gives the next row of nameplate_sides
NextRowid(s) ==
    LET ids == {r.rowid : r \in s.nameplate_sides}
    IN  IF ids = {} THEN 1
        ELSE 1 + (CHOOSE x \in ids : (x + 1) \notin ids /\ \A y \in ids : y <= x)

\* Application.ClaimNameplate up to the SELECT on nameplate_sides: the
\* nameplate is looked up, or created with its mailbox; rows is what the
\* SELECT for the side returned
ClaimLookup(s, app, name, side, now) ==
    LET found == {n \in s.nameplates : n.app_id = app /\ n.name = name}
        isNew == found = {}
        mbid  == IF isNew THEN generateMailboxID(s)
                 ELSE (CHOOSE n \in found : TRUE).mailbox_id
        npid  == IF isNew THEN s.np_seq + 1
                 ELSE (CHOOSE n \in found : TRUE).id
        s1    == IF isNew
                 THEN [AddMailbox(s, app, mbid, TRUE, now) EXCEPT
                         !.nameplates = @ \cup
                            {[id |-> npid, app_id |-> app, name |-> name, mailbox_id |-> mbid]},
                         !.np_seq = npid,
                         !.mb_seq = @ + 1]
                 ELSE s
    IN  [ s |-> s1, npid |-> npid, mbid |-> mbid,
          rows |-> {r \in s1.nameplate_sides : r.nameplate_id = npid /\ r.side = side} ]

\* Application.ClaimNameplate from the SELECT on nameplate_sides on, given
\* what the lookup l returned: the INSERT if the SELECT had no row, the
\* reclaim check on the row scanned (the first), OpenMailbox, the count
ClaimFinish(s, l, app, side, now) ==
    LET s2 == IF l.rows = {}
              THEN [s EXCEPT !.nameplate_sides = @ \cup
                      {[nameplate_id |-> l.npid, claimed |-> TRUE, side |-> side,
                        rowid |-> NextRowid(s)]}]
              ELSE s
        nps == CHOOSE r \in l.rows : \A x \in l.rows : r.rowid <= x.rowid
        reclaim == l.rows # {} /\ nps.claimed
        o  == OpenMailbox(s2, app, l.mbid, side, now)
    IN  IF reclaim
        THEN [s |-> s2, err |-> "ReclaimNameplate", mbid |-> l.mbid, opened |-> FALSE]
        ELSE IF o.err # ""
        THEN [s |-> o.s, err |-> o.err, mbid |-> l.mbid, opened |-> TRUE]
        ELSE IF NameplateSidesCrowded(o.s, l.npid)
        THEN [s |-> o.s, err |-> "NameplateCrowded", mbid |-> l.mbid, opened |-> TRUE]
        ELSE [s |-> o.s, err |-> "", mbid |-> l.mbid, opened |-> TRUE]

\* Application.ClaimNameplate run without another call in between: the new
\* store, the error ("": none), the mailbox id, and whether OpenMailbox ran
\* (it enters the in-memory Mailbox)
ClaimNameplate(s, app, name, side, now) ==
    LET l == ClaimLookup(s, app, name, side, now)
    IN  ClaimFinish(l.s, l, app, side, now)

\* the sides in nameplate_sides of the nameplate of this name
NameplateSides(s, app, name) ==
    LET ids == {n.id : n \in {x \in s.nameplates : x.app_id = app /\ x.name = name}}
    IN  { r.side : r \in { x \in s.nameplate_sides : x.nameplate_id \in ids } }

\* Application.GetNameplateIDs: SELECT DISTINCT name FROM nameplates WHERE app_id
GetNameplateIDs(s, app) == {n.name : n \in {x \in s.nameplates : x.app_id = app}}

\* the numbers j of digit width i whose name is not claimed (the slice avail)
Avail(i, claimed) == {j \in Pow10(i - 1)..(Pow10(i) - 1) : Itoa(j) \notin claimed}

\* avail[k - 1], the slice being in ascending order of j
AvailAt(avail, k) ==
    Itoa(CHOOSE j \in avail : Cardinality({m \in avail : m < j}) = k - 1)

FindNameplate_IgnoresClaimed(s, app) == {AvailAt(Avail(1, {}), 1)}

\* a ^ b of Go on non-negative ints: the bitwise exclusive or
RECURSIVE Xor(_, _)
Xor(a, b) ==
    IF a = 0 /\ b = 0 THEN 0
    ELSE (((a % 2) + (b % 2)) % 2) + (2 * Xor(a \div 2, b \div 2))

\* randRange(l, h) = rand.Intn(h-l) + l: the values it may return (the first
\* RandChoices of them); rand.Intn(n) panics when n <= 0, and then there is
\* none
randRange(l, h) ==
    IF h - l <= 0 THEN {}
    ELSE {l + k : k \in 0..(Min(h - l, RandChoices) - 1)}

\* no name of one, two or three digits is free
Exhausted(claimed) == \A i \in 1..3 : Avail(i, claimed) = {}

\* the draws of the loop "try something gigantic"
Gigantic == randRange(1000, Xor(1000, 1000))

\* Application.FindNameplate: the names it may return (one per random draw);
\* the smallest digit width 1..3 with a free name is used, and with none
\* free the first draw of the last loop that is not claimed
FindNameplate(s, app) ==
    LET claimed == GetNameplateIDs(s, app)
        w == IF Avail(1, claimed) # {} THEN 1
             ELSE IF Avail(2, claimed) # {} THEN 2 ELSE 3
        avail == Avail(w, claimed)
    IN  IF Exhausted(claimed)
        THEN {Itoa(d) : d \in Gigantic} \ claimed
        ELSE { AvailAt(avail, k) : k \in 1..Min(Cardinality(avail), RandChoices) }

\* Application.FindNameplate panics: the call of randRange in the last loop
\* has no value
FindPanics(s, app) == Exhausted(GetNameplateIDs(s, app)) /\ Gigantic = {}

\* Application.FindNameplate returns its error: every draw of the last loop
\* was claimed
FindFails(s, app) ==
    /\ Exhausted(GetNameplateIDs(s, app))
    /\ Gigantic # {}
    /\ {Itoa(d) : d \in Gigantic} \subseteq GetNameplateIDs(s, app)

ReleaseNameplate_KeepsRows(s, app, name, side) ==
    [s EXCEPT !.nameplate_sides =
        { IF (\E n \in s.nameplates : n.app_id = app /\ n.name = name
                                        /\ n.id = r.nameplate_id) /\ r.side = side
          THEN [r EXCEPT !.claimed = FALSE] ELSE r : r \in @ }]

ReleaseNameplate_ClosesMailbox(s, app, name, side) ==
    [s EXCEPT !.mailboxes =
        {m \in @ : \A n \in s.nameplates :
                      (n.app_id = app /\ n.name = name) => m.id # n.mailbox_id}]

\* Application.ReleaseNameplate
ReleaseNameplate(s, app, name, side) ==
    LET found == {n \in s.nameplates : n.app_id = app /\ n.name = name}
        np    == CHOOSE n \in found : TRUE
        rows  == {r \in s.nameplate_sides : r.nameplate_id = np.id /\ r.side = side}
        s1    == [s EXCEPT !.nameplate_sides =
                    { IF r.nameplate_id = np.id /\ r.side = side
                      THEN [r EXCEPT !.claimed = FALSE] ELSE r : r \in @ }]
        rem   == Cardinality({r \in s1.nameplate_sides :
                                 r.nameplate_id = np.id /\ r.claimed})
    IN  IF found = {} THEN s
        ELSE IF rows = {} THEN s
        ELSE IF rem > 0 THEN s1
        ELSE [s1 EXCEPT
                !.nameplate_sides = {r \in @ : r.nameplate_id # np.id},
                !.nameplates = {n \in @ : n.id # np.id}]


\* Mailbox.Delete, the store part: the messages, the sides and the row, by id
MailboxDelete(s, id) ==
    [s EXCEPT !.messages = SelectSeq(@, LAMBDA m : m.mailbox_id # id),
              !.mailbox_sides = {r \in @ : r.mailbox_id # id},
              !.mailboxes = {m \in @ : m.id # id}]

\* the "any are open" query of Mailbox.Close:
\* SELECT COUNT(*)>0 FROM mailbox_sides WHERE mailbox_id
CloseAnyOpen(s, id) == \E r \in s.mailbox_sides : r.mailbox_id = id

\* Mailbox.Close: the new store, and whether Delete ran
MailboxClose(s, app, id, side, mood) ==
    LET s1 == [s EXCEPT !.mailbox_sides =
                  { IF r.mailbox_id = id /\ r.side = side
                    THEN [r EXCEPT !.opened = FALSE, !.mood = mood] ELSE r : r \in @ }]
    IN  IF ~ \E m \in s.mailboxes : m.app_id = app /\ m.id = id
        THEN [s |-> s, deleted |-> FALSE]
        ELSE IF ~ \E r \in s.mailbox_sides : r.mailbox_id = id /\ r.side = side
        THEN [s |-> s, deleted |-> FALSE]
        ELSE IF CloseAnyOpen(s1, id)
        THEN [s |-> s1, deleted |-> FALSE]
        ELSE [s |-> MailboxDelete(s1, id), deleted |-> TRUE]

\* the INSERT of Mailbox.AddMessage
InsertMessage(s, msg) == [s EXCEPT !.messages = Append(@, msg)]

\* insertion of one row into a list ordered by server_rx, after its equals
RECURSIVE InsertByRx(_, _)
InsertByRx(sorted, m) ==
    IF sorted = <<>> THEN <<m>>
    ELSE IF m.server_rx < Head(sorted).server_rx THEN <<m>> \o sorted
    ELSE <<Head(sorted)>> \o InsertByRx(Tail(sorted), m)

RECURSIVE SortByRx(_)
SortByRx(rows) ==
    IF rows = <<>> THEN <<>>
    ELSE InsertByRx(SortByRx(SubSeq(rows, 1, Len(rows) - 1)), rows[Len(rows)])

\* Mailbox.GetMessages: the rows of the mailbox ORDER BY server_rx ASC
GetMessages(s, app, id) ==
    SortByRx(SelectSeq(s.messages, LAMBDA m : m.app_id = app /\ m.mailbox_id = id))

Cleanup_KeepsNameplates(s, app, since, now, listened) ==
    LET s1 == [s EXCEPT !.mailboxes =
                  { IF m.id \in listened THEN [m EXCEPT !.updated = now] ELSE m : m \in @ }]
        oldMboxes == { m.id : m \in {x \in s1.mailboxes :
                                        x.app_id = app /\ x.updated <= since} }
    IN  [s1 EXCEPT
            !.messages = SelectSeq(@, LAMBDA m : m.mailbox_id \notin oldMboxes),
            !.mailbox_sides = {r \in @ : r.mailbox_id \notin oldMboxes},
            !.mailboxes = {m \in @ : m.id \notin oldMboxes}]

\* Application.Cleanup, the store part: listened are the ids of the
\* application's in-memory mailboxes that have listeners
Cleanup(s, app, since, now, listened) ==
    LET s1 == [s EXCEPT !.mailboxes =
                  { IF m.id \in listened THEN [m EXCEPT !.updated = now] ELSE m : m \in @ }]
        oldMboxes == { m.id : m \in {x \in s1.mailboxes :
                                        x.app_id = app /\ x.updated <= since} }
        oldNameplates == { n.id : n \in {x \in s1.nameplates :
                                        x.app_id = app /\ x.mailbox_id \in oldMboxes} }
    IN  [s1 EXCEPT
            !.nameplate_sides = {r \in @ : r.nameplate_id \notin oldNameplates},
            !.nameplates = {n \in @ : n.id \notin oldNameplates},
            !.messages = SelectSeq(@, LAMBDA m : m.mailbox_id \notin oldMboxes),
            !.mailbox_sides = {r \in @ : r.mailbox_id \notin oldMboxes},
            !.mailboxes = {m \in @ : m.id \notin oldMboxes}]

\* Application.StillInUse
StillInUse(s, app) ==
    \/ \E m \in s.mailboxes : m.app_id = app
    \/ \E n \in s.nameplates : n.app_id = app

\* Service.GetAllApps: the app ids of nameplates, mailboxes and messages
GetAllApps(s) ==
    {n.app_id : n \in s.nameplates} \cup {m.app_id : m \in s.mailboxes}
        \cup {s.messages[i].app_id : i \in 1..Len(s.messages)}


(***************************************************************************)
(* The environment.  A scenario says which sessions connect, which kinds   *)
(* of frame they send, whether they also send frames that violate the      *)
(* protocol (unparsable, before bind, empty fields, a one-shot request     *)
(* repeated), how many frames are sent in all, how far the clock runs,     *)
(* and whether the cleaning loop ticks.  It is chosen once, in Init.       *)
(***************************************************************************)
\* the transit connections, their one token and the sides they may announce
TClients == {"t1", "t2", "t3"}
Tokens == {<<"T">>}
TSides == {<<"A">>, <<"B">>}

\* make(chan msg.IMessage, 64): the capacity of a session's sendBuffer
SendBufferCap == 64

Scenario(name, cs, kinds, invalid, frames, time, cleaning) ==
    [ name |-> name, clients |-> cs, kinds |-> kinds, invalid |-> invalid,
      frames |-> frames, time |-> time, cleaning |-> cleaning ]

AllKinds == {"ping", "bind", "list", "allocate", "claim", "release", "open",
             "add", "close"}

Scenarios ==
    { Scenario("any", {"c1", "c2"}, AllKinds, TRUE, MaxAnyFrames, 0, FALSE),
      Scenario("again", {"c1"},
               {"bind", "allocate", "claim", "release", "open", "close"},
               TRUE, MaxAnyFrames + 1, 0, FALSE),
      Scenario("solo", {"c1"},
               {"bind", "allocate", "claim", "release", "open", "add", "close"},
               FALSE, MaxFrames, MaxTime, TRUE),
      Scenario("talk", {"c1", "c2"}, {"bind", "claim", "open", "add", "close"},
               FALSE, MaxFrames, 0, FALSE),
      Scenario("crowd", {"c1", "c2", "c3"}, {"bind", "allocate", "open"},
               FALSE, MaxFrames, 0, FALSE),
      Scenario("reap", {"c1", "c2"}, {"bind", "allocate", "open"},
               FALSE, MaxAnyFrames + 1, MaxTime + 1, TRUE),
      Scenario("slow", {"c1", "c2"}, {"bind", "open", "add"},
               FALSE, SlowCap + 2, 0, FALSE),
      Scenario("leave", {"c1", "c2"}, {"bind", "open", "add", "close"},
               FALSE, MaxAnyFrames + 1, 0, FALSE),
      Scenario("stale", {"c1", "c2"}, {"bind", "allocate", "open", "add"},
               FALSE, MaxAnyFrames + 2, MaxTime + 1, TRUE),
      Scenario("transit", TClients, {"old", "new", "bad", "data"},
               TRUE, MaxLines, 0, FALSE) }

(***************************************************************************)
(* The configuration (config/config.go and the Options of package log).    *)
(* Of RelayOptions the two intervals are followed, of the log Options the  *)
(* fields its MergeFrom and Verify read; the other fields are copied and   *)
(* not looked at by Verify.                                                *)
(***************************************************************************)
VARIABLES
    options,        \* the Options object of the server
    optErr          \* what the last call of Verify or MergeFrom returned

configVars == <<options, optErr>>

ModeBoth == "BOTH"
ModeRelay == "RELAY"
ModeTransit == "TRANSIT"

\* the levels the log Options accept
LogLevels == {"DEBUG", "INFO", "WARN", "ERROR"}

\* log.DefaultOptions
LogDefaultOptions == [ Path |-> "", Level |-> "DEBUG", BlurTimes |-> 1 ]

\* config.DefaultOptions
DefaultOptions ==
    [ Mode    |-> ModeBoth,
      Relay   |-> [ CleaningInterval |-> 5, ChannelExpiration |-> 11 ],
      Logging |-> LogDefaultOptions ]

\* no call was made yet
NotCalled == "not called"

\* log Options.Verify: the error, "" for nil
LogVerify(o) == IF o.Level \notin LogLevels THEN "ErrOptionLevel" ELSE ""

\* log Options.MergeFrom: the merged object
LogMergeFrom(o, opt) ==
    [ Path      |-> IF opt.Path # "" THEN opt.Path ELSE o.Path,
      Level     |-> IF opt.Level # "" THEN opt.Level ELSE o.Level,
      BlurTimes |-> opt.BlurTimes ]

\* Options.Verify: the error, "" for nil
Verify(o) ==
    IF o.Mode # ModeBoth /\ o.Mode # ModeRelay /\ o.Mode # ModeTransit
    THEN "ErrOptionsMode"
    ELSE IF o.Relay.CleaningInterval > o.Relay.ChannelExpiration
    THEN "ErrOptionsCleaning"
    ELSE LogVerify(o.Logging)

\* Options.MergeFrom: the object after the call and the error returned
MergeFrom(o, opt) ==
    LET lg == LogMergeFrom(o.Logging, opt.Logging)
        o1 == [ Mode |-> opt.Mode, Relay |-> opt.Relay, Logging |-> lg ]
    IN  [ o |-> o1, err |-> IF LogVerify(lg) # "" THEN LogVerify(lg) ELSE Verify(o1) ]

(***************************************************************************)
(* The rendezvous relay: state.                                            *)
(***************************************************************************)
VARIABLES
    scn,            \* the scenario
    store,          \* the durable tables
    now,            \* the clock
    lastCleaning,   \* runCleaning: the time of the previous tick
    apps,           \* Service.Apps: app id -> its Application object (0: none)
    appSeq,         \* Application objects created so far
    mbox,           \* the in-memory Mailbox objects: <<application, id>> -> tables
    clients,        \* the live-clients set
    coord,          \* runRelay: "idle", or the session whose OnConnect is due
    sess,           \* the Client sessions
    outq,           \* per session, every frame placed on sendBuffer, in order
    taken,          \* per session, how many of them watchWrites has taken
    nframes,        \* inbound frames processed so far
    hist            \* history: what was called with what, and what came of it

relayVars == <<store, now, lastCleaning, apps, appSeq, mbox, clients, coord,
               sess, outq, taken, nframes, hist>>

\* the transit relay
VARIABLES
    tc,         \* the transit Clients
    pending,    \* pending: token -> list of transitConn (<<>>: no entry)
    tlock,      \* the holder of lock, or NoClient
    sock,       \* per connection, what the server wrote to its socket, in order
    inbuf,      \* per connection, the lines its peer wrote that are not read yet
    nlines,     \* per connection, the lines its peer wrote so far
    crashed,    \* the process died of a nil dereference
    hup,        \* per connection: its peer hung up
    afterOk,    \* per connection, the chunks its peer wrote after "ok" was sent to it
    order       \* the connections in the order they took the lock

transitVars == <<tc, pending, tlock, sock, inbuf, nlines, crashed, hup, afterOk, order>>

vars == <<scn, configVars, relayVars, transitVars>>

\* the sessions whose peer reads what is written to it, as far as the
\* scenario follows the writer; in the scenarios other than slow no queue
\* comes near its capacity and the writer is left out
Writers == IF scn.name = "slow" THEN {"c2"} ELSE {}

\* the capacity of a sendBuffer: that of the program, except in the scenario
\* slow, which fills a queue and runs with a small one
QueueCap == IF scn.name = "slow" THEN SlowCap ELSE SendBufferCap

\* the sessions that send add frames, and when: in the scenario slow c1 only
\* listens, and c2 adds once every session has opened its mailbox
Scripted(c, kind, opened) ==
    /\ (scn.name = "slow" /\ kind = "add") => (c = "c2" /\ opened = scn.clients)
    /\ (scn.name = "stale" /\ c = "c2") => kind = "bind"

\* the sessions whose peer may hang up, so that the reader of the session
\* ends: followed in the scenario leave
Leavers == IF scn.name \in {"leave", "lock"} THEN scn.clients ELSE {}

\* whether a statement of Mailbox.Close may fail in the store: followed in
\* the scenario again
StoreFails == IF scn.name = "again" THEN BOOLEAN ELSE {FALSE}

\* a Client as handleWebsocket creates it
NewSession ==
    [ conn |-> "new", App |-> 0, AppID |-> EMPTY, Side |-> EMPTY,
      Nameplate |-> EMPTY, Mailbox |-> EMPTY,
      Allocated |-> FALSE, Claimed |-> FALSE, Released |-> FALSE,
      Listening |-> FALSE, Closed |-> FALSE, listenerHandle |-> 0,
      nin |-> 0, pc |-> "idle", found |-> EMPTY, pending |-> EMPTY,
      todo |-> {}, seen |-> {}, wr |-> "select" ]

\* the relay but for its store: no session, no app, no mailbox object
RelayIdle ==
    /\ options = DefaultOptions
    /\ optErr = NotCalled
    /\ now = 0
    /\ lastCleaning = -1
    /\ apps = [a \in AppIds |-> 0]
    /\ appSeq = 0
    /\ mbox = <<>>
    /\ clients = {}
    /\ coord = "idle"
    /\ sess = [c \in Clients |-> NewSession]
    /\ outq = [c \in Clients |-> <<>>]
    /\ taken = [c \in Clients |-> 0]
    /\ nframes = 0
    /\ hist = [ did      |-> [c \in Clients |-> <<>>],
                due      |-> [c \in Clients |-> <<>>],
                rejected |-> [c \in Clients |-> {}] ]

RelayInit == store = EmptyStore /\ RelayIdle

\* NewMailbox, entered in a.Mailboxes when the id has no object yet
EnsureMailbox(mb, key) ==
    IF key \in DOMAIN mb THEN mb
    ELSE (key :> [listeners |-> {}, listenerID |-> 1]) @@ mb

\* Client.IsBound
IsBound(c) == sess[c].App # 0 /\ sess[c].Side # EMPTY

\* the id the client put in its k-th frame
FrameId(c, k) == <<c>> \o Itoa(k)

Frame(type, val, c, k) == [type |-> type, val |-> val, n |-> k, from |-> c]

ClientErrors ==
    { "bind first", "bound", "bind app_id", "bind side", "already allocated",
      "already claimed", "claim nameplate", "ReclaimNameplate", "NameplateCrowded",
      "already released", "release nameplate", "release not claimed",
      "already opened", "open mailbox", "open first", "add phase", "add body",
      "already closed", "close mailbox", "close open first", "MailboxCrowded",
      "unknown type" }

messageError_Unmasked(e, c, k) == Frame("error", <<e>>, c, k)

\* Client.messageError: the error frame, masked unless a client error
messageError(e, c, k) ==
    Frame("error", <<IF e \in ClientErrors THEN e ELSE "internal">>, c, k)

\* the ack of Client.OnMessage
AckFrame(c, k) == Frame("ack", FrameId(c, k), c, k)

OnMessageFrames_AckLast(ack, replies) == replies \o <<ack>>

\* Client.OnMessage: what a parsed frame places on sendBuffer, given what
\* its handler replies
OnMessageFrames(ack, replies) == <<ack>> \o replies

\* the frames on the sendBuffer of c: those placed and not yet taken
QueueLen(c) == Len(outq[c]) - taken[c]

\* a frame of this kind can be read: the session's reader runs and is
\* between messages, and the scenario has such a frame to send
CanRead(c, kind) ==
    /\ sess[c].conn = "up"
    /\ sess[c].pc = "idle"
    /\ kind \in scn.kinds
    /\ nframes < scn.frames
    /\ kind \notin {"ping", "bind"} => (IsBound(c) \/ scn.invalid)
    /\ Scripted(c, kind, {d \in scn.clients : sess[d].Mailbox # EMPTY})

\* a value a field may hold: one of vals, or empty in a scenario that sends
\* invalid frames
Field(vals) == IF scn.invalid THEN vals \cup {EMPTY} ELSE vals

\* a frame failing the handler's own checks is sent only in such a scenario
Sent(pre) == pre = "" \/ scn.invalid

\* the frame number of the frame being read
K(c) == sess[c].nin + 1

\* history: session c called op with arg for side; before and held are what
\* the store held for arg at the call; err and val are what the call returned
Called(c, op, arg, side, before, held, err, val) ==
    [hist EXCEPT !.did[c] = Append(@, [ n |-> K(c), op |-> op, arg |-> arg,
                                        side |-> side, before |-> before,
                                        held |-> held, err |-> err, val |-> val ])]

\* the end of OnMessage: s2 is the session after the handler, h the history;
\* each send on sendBuffer waits for room, so the end is reached only when
\* the queue had room for the ack and the replies
FinishLog(c, s2, replies, h) ==
    /\ QueueLen(c) + 1 + Len(replies) <= QueueCap
    /\ sess' = [sess EXCEPT ![c] = [s2 EXCEPT !.nin = K(c)]]
    /\ outq' = [outq EXCEPT ![c] = @ \o OnMessageFrames(AckFrame(c, K(c)), replies)]
    /\ nframes' = nframes + 1
    /\ hist' = h

Finish(c, s2, replies) == FinishLog(c, s2, replies, hist)

Dispatch_NoBindCheck(c, kind, handler) == handler

\* OnMessage of a bound-first frame on an unbound session, else the handler
Dispatch(c, kind, handler) ==
    IF kind \notin {"ping", "bind"} /\ ~IsBound(c)
    THEN /\ Finish(c, sess[c], <<messageError("bind first", c, K(c))>>)
         /\ UNCHANGED <<store, apps, appSeq, mbox>>
    ELSE handler

(***************************************************************************)
(* runRelay and handleWebsocket.                                           *)
(***************************************************************************)
\* case clnt := <-register: the session enters the live set; the sender
\* (handleWebsocket) goes on to start the reader and the writer
Register(c) ==
    /\ c \in scn.clients
    /\ coord = "idle"
    /\ sess[c].conn = "new"
    /\ clients' = clients \cup {c}
    /\ coord' = c
    /\ sess' = [sess EXCEPT ![c].conn = "up"]
    /\ UNCHANGED <<store, now, lastCleaning, apps, appSeq, mbox, outq, nframes>>
    /\ UNCHANGED <<scn, configVars, hist, taken, transitVars>>

\* clnt.OnConnect() of the register case
OnConnect(c) ==
    /\ coord = c
    /\ outq' = [outq EXCEPT ![c] = Append(@, Frame("welcome", EMPTY, c, 0))]
    /\ coord' = "idle"
    /\ UNCHANGED <<store, now, lastCleaning, apps, appSeq, mbox, clients, sess, nframes>>
    /\ UNCHANGED <<scn, configVars, hist, taken, transitVars>>

\* Mailbox.RemoveListener on the object at key: the new tables
RemoveListener(mb, key, handle) ==
    [mb EXCEPT ![key].listeners = {l \in @ : l[1] # handle}]

\* Client.Close up to close(c.sendBuffer): the listener tables it leaves
ClientClose(mb, s) ==
    IF s.Mailbox # EMPTY /\ (s.Listening \/ s.listenerHandle > 0)
       /\ <<s.App, s.Mailbox>> \in DOMAIN mb
    THEN RemoveListener(mb, <<s.App, s.Mailbox>>, s.listenerHandle)
    ELSE mb

\* case clnt := <-unregister, sent by watchReads when its loop ends: the
\* session is closed and leaves the live set; Close ends with c.conn = nil
Unregister(c) ==
    /\ c \in Leavers
    /\ coord = "idle"
    /\ sess[c].conn = "up" /\ sess[c].pc = "idle"
    /\ c \in clients
    /\ mbox' = ClientClose(mbox, sess[c])
    /\ sess' = [sess EXCEPT ![c].conn = "down"]
    /\ clients' = clients \ {c}
    /\ UNCHANGED <<store, now, lastCleaning, apps, appSeq, coord, outq, nframes>>
    /\ UNCHANGED <<scn, configVars, hist, taken, transitVars>>

(***************************************************************************)
(* Client.OnMessage, one action per kind of frame.                         *)
(***************************************************************************)
\* a frame that msg.ParseClient rejects: an error frame and no ack
RecvUnparsed(c) ==
    /\ sess[c].conn = "up" /\ sess[c].pc = "idle"
    /\ scn.invalid /\ nframes < scn.frames
    /\ \E e \in {"unknown type", "malformed"} :
          outq' = [outq EXCEPT ![c] = Append(@, messageError(e, c, K(c)))]
    /\ sess' = [sess EXCEPT ![c].nin = K(c)]
    /\ nframes' = nframes + 1
    /\ hist' = [hist EXCEPT !.rejected[c] = @ \cup {K(c)}]
    /\ UNCHANGED <<store, now, lastCleaning, apps, appSeq, mbox, clients, coord>>
    /\ UNCHANGED <<scn, configVars, taken, transitVars>>

\* HandlePing
RecvPing(c) ==
    /\ CanRead(c, "ping")
    /\ Finish(c, sess[c], <<Frame("pong", EMPTY, c, K(c))>>)
    /\ UNCHANGED <<store, now, lastCleaning, apps, appSeq, mbox, clients, coord>>
    /\ UNCHANGED <<scn, configVars, taken, transitVars>>

\* HandleBind, with Service.GetApp
RecvBind(c) ==
    /\ CanRead(c, "bind")
    /\ \E app \in Field(AppIds), side \in Field({SideOf(c)}) :
          LET pre == IF IsBound(c) THEN "bound"
                     ELSE IF app = EMPTY THEN "bind app_id"
                     ELSE IF side = EMPTY THEN "bind side" ELSE ""
              obj == IF apps[app] = 0 THEN appSeq + 1 ELSE apps[app]
          IN  /\ Sent(pre)
              /\ IF pre # ""
                 THEN /\ Finish(c, sess[c], <<messageError(pre, c, K(c))>>)
                      /\ UNCHANGED <<apps, appSeq>>
                 ELSE /\ apps' = [apps EXCEPT ![app] = obj]
                      /\ appSeq' = IF apps[app] = 0 THEN appSeq + 1 ELSE appSeq
                      /\ Finish(c, [sess[c] EXCEPT !.App = obj, !.AppID = app,
                                                   !.Side = side], <<>>)
    /\ UNCHANGED <<store, now, lastCleaning, mbox, clients, coord>>
    /\ UNCHANGED <<scn, configVars, taken, transitVars>>

\* HandleList (config AllowList at its default, true)
RecvList(c) ==
    /\ CanRead(c, "list")
    /\ Dispatch(c, "list",
          /\ Finish(c, sess[c], <<Frame("nameplates", EMPTY, c, K(c))>>)
          /\ UNCHANGED <<store, apps, appSeq, mbox>>)
    /\ UNCHANGED <<now, lastCleaning, clients, coord>>
    /\ UNCHANGED <<scn, configVars, taken, transitVars>>

\* HandleAllocate up to the return of FindNameplate
RecvAllocate(c) ==
    /\ CanRead(c, "allocate")
    /\ Dispatch(c, "allocate",
          /\ Sent(IF sess[c].Allocated THEN "already allocated" ELSE "")
          /\ IF sess[c].Allocated
             THEN Finish(c, sess[c], <<messageError("already allocated", c, K(c))>>)
             ELSE \E name \in FindNameplate(store, sess[c].AppID) :
                     Finish(c, [sess[c] EXCEPT !.pc = "alloc", !.found = name], <<>>)
          /\ UNCHANGED <<store, apps, appSeq, mbox>>)
    /\ UNCHANGED <<now, lastCleaning, clients, coord>>
    /\ UNCHANGED <<scn, configVars, taken, transitVars>>

\* HandleAllocate from the ClaimNameplate of AllocateNameplate on
AllocClaim(c) ==
    /\ sess[c].pc = "alloc"
    /\ LET r == ClaimNameplate(store, sess[c].AppID, sess[c].found, sess[c].Side, now)
           k == sess[c].nin
       IN  /\ store' = r.s
           /\ hist' = [hist EXCEPT !.did[c] = Append(@,
                          [ n |-> k, op |-> "allocate", arg |-> sess[c].found,
                            side |-> sess[c].Side,
                            before |-> NameplateSides(store, sess[c].AppID, sess[c].found),
                            held |-> <<>>, err |-> r.err, val |-> r.mbid ])]
           /\ mbox' = IF r.opened THEN EnsureMailbox(mbox, <<sess[c].App, r.mbid>>)
                      ELSE mbox
           /\ IF r.err # ""
              THEN /\ sess' = [sess EXCEPT ![c].pc = "idle", ![c].found = EMPTY]
                   /\ outq' = [outq EXCEPT ![c] = Append(@, messageError(r.err, c, k))]
              ELSE /\ sess' = [sess EXCEPT ![c].pc = "idle", ![c].found = EMPTY,
                                           ![c].Allocated = TRUE]
                   /\ outq' = [outq EXCEPT ![c] =
                                 Append(@, Frame("allocated", sess[c].found, c, k))]
    /\ UNCHANGED <<now, lastCleaning, apps, appSeq, clients, coord, nframes>>
    /\ UNCHANGED <<scn, configVars, taken, transitVars>>

\* the side HandleClaim hands to ClaimNameplate: its second argument
ClaimSide(c, nameplate) == nameplate

\* HandleClaim
RecvClaim(c) ==
    /\ CanRead(c, "claim")
    /\ Dispatch(c, "claim",
        \E name \in Field(ClaimNames \cup GetNameplateIDs(store, sess[c].AppID)) :
          LET pre == IF sess[c].Claimed THEN "already claimed"
                     ELSE IF name = EMPTY THEN "claim nameplate" ELSE ""
              r   == ClaimNameplate(store, sess[c].AppID, name, ClaimSide(c, name), now)
              h   == Called(c, "claim", name, ClaimSide(c, name),
                            NameplateSides(store, sess[c].AppID, name), <<>>,
                            r.err, r.mbid)
          IN  /\ Sent(pre)
              /\ UNCHANGED <<apps, appSeq>>
              /\ IF pre # ""
                 THEN /\ Finish(c, sess[c], <<messageError(pre, c, K(c))>>)
                      /\ UNCHANGED <<store, mbox>>
                 ELSE /\ store' = r.s
                      /\ mbox' = IF r.opened
                                 THEN EnsureMailbox(mbox, <<sess[c].App, r.mbid>>)
                                 ELSE mbox
                      /\ IF r.err # ""
                         THEN FinishLog(c, sess[c], <<messageError(r.err, c, K(c))>>, h)
                         ELSE FinishLog(c, [sess[c] EXCEPT !.Claimed = TRUE,
                                                           !.Nameplate = name],
                                        <<Frame("claimed", r.mbid, c, K(c))>>, h))
    /\ UNCHANGED <<now, lastCleaning, clients, coord>>
    /\ UNCHANGED <<scn, configVars, taken, transitVars>>

RecvRelease_NoLatch(c) ==
    /\ CanRead(c, "release")
    /\ Dispatch(c, "release",
        \E np \in ClaimNames \cup {sess[c].Nameplate, EMPTY} :
          LET pre == IF np # EMPTY /\ np # sess[c].Nameplate THEN "release nameplate"
                     ELSE IF np = EMPTY /\ sess[c].Nameplate = EMPTY
                     THEN "release not claimed" ELSE ""
          IN  /\ Sent(pre)
              /\ UNCHANGED <<apps, appSeq, mbox>>
              /\ IF pre # ""
                 THEN /\ Finish(c, sess[c], <<messageError(pre, c, K(c))>>)
                      /\ UNCHANGED store
                 ELSE /\ store' = ReleaseNameplate(store, sess[c].AppID,
                                                   sess[c].Nameplate, sess[c].Side)
                      /\ Finish(c, [sess[c] EXCEPT !.Released = TRUE],
                                <<Frame("released", EMPTY, c, K(c))>>))
    /\ UNCHANGED <<now, lastCleaning, clients, coord>>
    /\ UNCHANGED <<scn, configVars, taken, transitVars>>

\* HandleRelease
RecvRelease(c) ==
    /\ CanRead(c, "release")
    /\ Dispatch(c, "release",
        \E np \in ClaimNames \cup {sess[c].Nameplate, EMPTY} :
          LET pre == IF sess[c].Released THEN "already released"
                     ELSE IF np # EMPTY /\ np # sess[c].Nameplate THEN "release nameplate"
                     ELSE IF np = EMPTY /\ sess[c].Nameplate = EMPTY
                     THEN "release not claimed" ELSE ""
          IN  /\ Sent(pre)
              /\ UNCHANGED <<apps, appSeq, mbox>>
              /\ IF pre # ""
                 THEN /\ Finish(c, sess[c], <<messageError(pre, c, K(c))>>)
                      /\ UNCHANGED store
                 ELSE /\ store' = ReleaseNameplate(store, sess[c].AppID,
                                                   sess[c].Nameplate, sess[c].Side)
                      /\ Finish(c, [sess[c] EXCEPT !.Released = TRUE],
                                <<Frame("released", EMPTY, c, K(c))>>))
    /\ UNCHANGED <<now, lastCleaning, clients, coord>>
    /\ UNCHANGED <<scn, configVars, taken, transitVars>>

\* the ids of the mailboxes in the store
MailboxIds(s) == {m.id : m \in s.mailboxes}

\* Mailbox.AddListener on the object at key: the new tables
AddListener(mb, key, c) ==
    [mb EXCEPT ![key] = [listeners  |-> @.listeners \cup {<<@.listenerID, c>>},
                         listenerID |-> @.listenerID + 1]]

\* HandleOpen
RecvOpen(c) ==
    /\ CanRead(c, "open")
    /\ Dispatch(c, "open",
        \E id \in Field(GuessedMailboxes \cup MailboxIds(store)) :
          LET pre == IF sess[c].Mailbox # EMPTY THEN "already opened"
                     ELSE IF id = EMPTY THEN "open mailbox" ELSE ""
              o   == OpenMailbox(store, sess[c].AppID, id, sess[c].Side, now)
              key == <<sess[c].App, id>>
              mb1 == EnsureMailbox(mbox, key)
              got == GetMessages(store, sess[c].AppID, id)
              h   == Called(c, "open", id, sess[c].Side, {},
                            [i \in 1..Len(got) |-> got[i].id], o.err, id)
          IN  /\ Sent(pre)
              /\ UNCHANGED <<apps, appSeq>>
              /\ IF pre # ""
                 THEN /\ Finish(c, sess[c], <<messageError(pre, c, K(c))>>)
                      /\ UNCHANGED <<store, mbox>>
                 ELSE /\ store' = o.s
                      /\ IF o.err # ""
                         THEN /\ mbox' = mb1
                              /\ FinishLog(c, sess[c], <<messageError(o.err, c, K(c))>>, h)
                         ELSE /\ mbox' = AddListener(mb1, key, c)
                              /\ FinishLog(c, [sess[c] EXCEPT !.Mailbox = id,
                                                  !.listenerHandle = mb1[key].listenerID],
                                           <<>>, h))
    /\ UNCHANGED <<now, lastCleaning, clients, coord>>
    /\ UNCHANGED <<scn, configVars, taken, transitVars>>

\* history: msg was inserted; it is due to the sessions that listen on the
\* Mailbox object at key
Inserted(msg, key) ==
    [hist EXCEPT !.due = [cl \in Clients |->
        IF key \in DOMAIN mbox /\ \E l \in mbox[key].listeners : l[2] = cl
        THEN Append(@[cl], msg.id) ELSE @[cl]]]

\* HandleAdd up to the INSERT of Mailbox.AddMessage
RecvAdd(c) ==
    /\ CanRead(c, "add")
    /\ Dispatch(c, "add",
        \E phase \in Field({<<"p">>}), body \in Field({<<"b">>}) :
          LET pre == IF sess[c].Mailbox = EMPTY THEN "open first"
                     ELSE IF phase = EMPTY THEN "add phase"
                     ELSE IF body = EMPTY THEN "add body" ELSE ""
              msg == [ id |-> FrameId(c, K(c)), app_id |-> sess[c].AppID,
                       mailbox_id |-> sess[c].Mailbox, side |-> sess[c].Side,
                       phase |-> phase, body |-> body, server_rx |-> now ]
          IN  /\ Sent(pre)
              /\ UNCHANGED <<apps, appSeq, mbox>>
              /\ IF pre # ""
                 THEN /\ Finish(c, sess[c], <<messageError(pre, c, K(c))>>)
                      /\ UNCHANGED store
                 ELSE /\ store' = InsertMessage(store, msg)
                      /\ FinishLog(c, [sess[c] EXCEPT !.pc = "add", !.pending = msg],
                                   <<>>, Inserted(msg, <<sess[c].App, sess[c].Mailbox>>)))
    /\ UNCHANGED <<now, lastCleaning, clients, coord>>
    /\ UNCHANGED <<scn, configVars, taken, transitVars>>

\* Client.mailboxMessage for every listener of the object at key
Broadcast(q, key, msg, from, k) ==
    [cl \in Clients |->
        IF (\E l \in mbox[key].listeners : l[2] = cl) /\ sess[cl].conn # "down"
        THEN Append(q[cl], Frame("message", msg.id, from, k))
        ELSE q[cl]]

\* the listeners of the object at key whose callback sends
Receivers(key) ==
    {cl \in Clients : (\E l \in mbox[key].listeners : l[2] = cl) /\ sess[cl].conn # "down"}

\* Mailbox.AddMessage after the INSERT: broadcast, then Touch; the send of
\* mailboxMessage waits while the sendBuffer of the listener is full
AddBroadcast(c) ==
    /\ sess[c].pc = "add"
    /\ \A cl \in Receivers(<<sess[c].App, sess[c].Mailbox>>) : QueueLen(cl) < QueueCap
    /\ outq' = Broadcast(outq, <<sess[c].App, sess[c].Mailbox>>, sess[c].pending,
                         c, sess[c].nin)
    /\ store' = Touch(store, sess[c].Mailbox, now)
    /\ sess' = [sess EXCEPT ![c].pc = "idle", ![c].pending = EMPTY]
    /\ UNCHANGED <<now, lastCleaning, apps, appSeq, mbox, clients, coord, nframes>>
    /\ UNCHANGED <<scn, configVars, hist, taken, transitVars>>

\* one turn of the loop of watchWrites: a frame is taken off sendBuffer and
\* written to the peer
WatchWrites(c) ==
    /\ c \in Writers
    /\ sess[c].conn = "up"
    /\ taken[c] < Len(outq[c])
    /\ taken' = [taken EXCEPT ![c] = @ + 1]
    /\ UNCHANGED <<store, now, lastCleaning, apps, appSeq, mbox, clients, coord, sess,
                   outq, nframes>>
    /\ UNCHANGED <<scn, configVars, hist, transitVars>>

\* Mailbox.RemoveAllListeners as Mailbox.Delete calls it, on its copy of the
\* Mailbox: every stop callback (Client.stopMailboxMessages) runs, and the
\* new empty tables are assigned to the copy
StopListeners(ss, mb, key) ==
    [cl \in Clients |->
        IF (\E l \in mb[key].listeners : l[2] = cl) /\ ss[cl].Mailbox # EMPTY
        THEN [ss[cl] EXCEPT !.Listening = FALSE, !.listenerHandle = 0]
        ELSE ss[cl]]

\* HandleClose
RecvClose(c) ==
    /\ CanRead(c, "close")
    /\ Dispatch(c, "close",
        \E id \in GuessedMailboxes \cup MailboxIds(store) \cup {EMPTY},
           mood \in {<<"happy">>}, fails \in StoreFails :
          LET pre == IF sess[c].Closed THEN "already closed"
                     ELSE IF id # EMPTY /\ sess[c].Mailbox # EMPTY /\ sess[c].Mailbox # id
                     THEN "close mailbox"
                     ELSE IF id = EMPTY /\ sess[c].Mailbox = EMPTY
                     THEN "close open first"
                     ELSE ""
              reopen == sess[c].Mailbox = EMPTY
              o   == IF reopen
                     THEN OpenMailbox(store, sess[c].AppID, id, sess[c].Side, now)
                     ELSE [s |-> store, err |-> ""]
              mid == IF reopen THEN id ELSE sess[c].Mailbox
              key == <<sess[c].App, mid>>
              mb1 == IF reopen THEN EnsureMailbox(mbox, key) ELSE mbox
              cl  == MailboxClose(o.s, sess[c].AppID, mid, sess[c].Side, mood)
          IN  /\ Sent(pre)
              /\ reopen => scn.invalid
              /\ UNCHANGED <<apps, appSeq>>
              /\ IF pre # ""
                 THEN /\ Finish(c, sess[c], <<messageError(pre, c, K(c))>>)
                      /\ UNCHANGED <<store, mbox>>
                 ELSE IF o.err # ""
                 THEN /\ store' = o.s
                      /\ mbox' = mb1
                      /\ Finish(c, sess[c], <<messageError(o.err, c, K(c))>>)
                 ELSE IF fails
                 THEN \* c.Mailbox = mbox is done, c.Mailbox.Close returns err
                      /\ store' = o.s
                      /\ mbox' = mb1
                      /\ Finish(c, [sess[c] EXCEPT !.Mailbox = mid],
                                <<messageError("store", c, K(c))>>)
                 ELSE /\ store' = cl.s
                      /\ mbox' = mb1
                      /\ LET ss == IF cl.deleted THEN StopListeners(sess, mb1, key)
                                   ELSE sess
                         IN  /\ sess' = [ss EXCEPT ![c] =
                                           [@ EXCEPT !.Mailbox = EMPTY, !.Closed = TRUE,
                                                     !.nin = K(c)]]
                             /\ outq' = [outq EXCEPT ![c] = @ \o
                                           OnMessageFrames(AckFrame(c, K(c)),
                                              <<Frame("closed", EMPTY, c, K(c))>>)]
                             /\ nframes' = nframes + 1
                             /\ hist' = Called(c, "close", mid, sess[c].Side, {},
                                               <<>>, "", mid))
    /\ UNCHANGED <<now, lastCleaning, clients, coord>>
    /\ UNCHANGED <<scn, configVars, taken, transitVars>>

(***************************************************************************)
(* Time and the cleaning loop.                                             *)
(***************************************************************************)
Tick ==
    /\ now < scn.time
    /\ now' = now + 1
    /\ UNCHANGED <<store, lastCleaning, apps, appSeq, mbox, clients, coord, sess,
                   outq, nframes>>
    /\ UNCHANGED <<scn, configVars, hist, taken, transitVars>>

\* the ids of the in-memory mailboxes of Application object obj with listeners
Listened(obj) ==
    { key[2] : key \in {x \in DOMAIN mbox : x[1] = obj /\ mbox[x].listeners # {}} }

\* Service.CleanApps: Cleanup of every app id of the store that is in the
\* registry, collecting those no longer in use
RECURSIVE CleanAppsLoop(_, _, _, _)
CleanAppsLoop(s, todo, dead, since) ==
    IF todo = {} THEN [s |-> s, dead |-> dead]
    ELSE LET a  == CHOOSE x \in todo : TRUE
             s1 == IF apps[a] # 0 THEN Cleanup(s, a, since, now, Listened(apps[a])) ELSE s
             d1 == IF apps[a] # 0 /\ ~StillInUse(s1, a) THEN dead \cup {a} ELSE dead
         IN  CleanAppsLoop(s1, todo \ {a}, d1, since)

\* one tick of runCleaning
CleaningTick ==
    /\ scn.cleaning
    /\ lastCleaning < now
    /\ LET r == CleanAppsLoop(store, GetAllApps(store), {}, lastCleaning)
       IN  /\ store' = r.s
           /\ apps' = [a \in AppIds |-> IF a \in r.dead THEN 0 ELSE apps[a]]
    /\ lastCleaning' = now
    /\ UNCHANGED <<now, appSeq, mbox, clients, coord, sess, outq, nframes>>
    /\ UNCHANGED <<scn, configVars, hist, taken, transitVars>>

RelayNext ==
    \/ \E c \in Clients : Register(c)
    \/ \E c \in Clients : OnConnect(c)
    \/ \E c \in Clients : Unregister(c)
    \/ \E c \in Clients : WatchWrites(c)
    \/ \E c \in Clients : RecvUnparsed(c)
    \/ \E c \in Clients : RecvPing(c)
    \/ \E c \in Clients : RecvBind(c)
    \/ \E c \in Clients : RecvList(c)
    \/ \E c \in Clients : RecvAllocate(c)
    \/ \E c \in Clients : AllocClaim(c)
    \/ \E c \in Clients : RecvClaim(c)
    \/ \E c \in Clients : RecvRelease(c)
    \/ \E c \in Clients : RecvOpen(c)
    \/ \E c \in Clients : RecvAdd(c)
    \/ \E c \in Clients : AddBroadcast(c)
    \/ \E c \in Clients : RecvClose(c)
    \/ Tick
    \/ CleaningTick

(***************************************************************************)
(* The transit relay (transit/client.go and the transit service).          *)
(*                                                                         *)
(* A connection's reader is a goroutine; processToken of one connection    *)
(* writes the fields of another (its match) while that one's reader runs,  *)
(* so processToken is split where the order of its writes shows: after     *)
(* "ok" went out to the match and before the match's SentOK is set.        *)
(* A line is what ReadBytes returns; a handshake line is abstracted to its *)
(* form (old, new with a side, or one that fails both patterns).           *)
(***************************************************************************)
\* NewClient
NewClient ==
    [ conn |-> "none", SentOK |-> FALSE, GotToken |-> FALSE, TokenBuf |-> <<>>,
      Token |-> EMPTY, Side |-> EMPTY, Mood |-> EMPTY, Buddy |-> NoClient, pc |-> "idle", match |-> NoClient ]

TransitInit ==
    /\ tc = [c \in TClients |-> NewClient]
    /\ pending = [tk \in Tokens |-> <<>>]
    /\ tlock = NoClient
    /\ sock = [c \in TClients |-> <<>>]
    /\ inbuf = [c \in TClients |-> <<>>]
    /\ nlines = [c \in TClients |-> 0]
    /\ crashed = FALSE
    /\ hup = [c \in TClients |-> FALSE]
    /\ afterOk = [c \in TClients |-> <<>>]
    /\ order = <<>>

\* Client.Close: the connections closed by c.Close(), c first, then along
\* the Buddy links while the buddy's conn is not nil
RECURSIVE CloseSet(_, _, _)
CloseSet(t, c, done) ==
    LET d1 == done \cup {c}
        b  == t[c].Buddy
    IN  IF b # NoClient /\ b \notin d1 /\ t[b].conn = "open"
        THEN CloseSet(t, b, d1)
        ELSE d1

\* Client.Close: the Clients after c.Close()
TClose(t, c) ==
    [x \in TClients |->
        IF x \in CloseSet(t, c, {}) /\ t[x].conn = "open"
        THEN [t[x] EXCEPT !.conn = "nil"] ELSE t[x]]

\* a response of the relay
Resp(text) == [kind |-> text, token |-> EMPTY, side |-> EMPTY]

\* conn.Write(data) on the socket of c
Write(sk, c, data) == [sk EXCEPT ![c] = Append(@, data)]

\* "ok" was written to the socket of c
OkCount(c) == Cardinality({i \in 1..Len(sock[c]) : sock[c][i].kind = "ok"})

\* the connection accepted before c, if any (the connections are named in
\* the order they are accepted)
Before(c) == IF c = "t2" THEN {"t1"} ELSE IF c = "t3" THEN {"t2"} ELSE {}

\* runTransit: Accept, and handleConnection up to the first read
Accept(c) ==
    /\ ~crashed
    /\ c \in scn.clients
    /\ tc[c].conn = "none"
    /\ \A b \in Before(c) : tc[b].conn # "none"
    /\ tc' = [tc EXCEPT ![c].conn = "open"]
    /\ UNCHANGED <<pending, tlock, sock, inbuf, nlines, crashed, hup, afterOk, order>>
    /\ UNCHANGED <<scn, configVars, relayVars>>

\* the lines of all peers so far
RECURSIVE TotalLines(_)
TotalLines(cs) ==
    IF cs = {} THEN 0
    ELSE LET c == CHOOSE x \in cs : TRUE IN nlines[c] + TotalLines(cs \ {c})

\* the lines a peer may write: first a handshake, then chunks of data
Lines(c) ==
    IF nlines[c] > 0
    THEN {[kind |-> "data", token |-> <<c, DigitChar(nlines[c])>>, side |-> EMPTY]}
    ELSE
    (IF "old" \in scn.kinds THEN {[kind |-> "old", token |-> tk, side |-> EMPTY] : tk \in Tokens}
     ELSE {})
    \cup (IF "new" \in scn.kinds
          THEN {[kind |-> "new", token |-> tk[1], side |-> tk[2]] : tk \in Tokens \X TSides}
          ELSE {})
    \cup (IF "bad" \in scn.kinds THEN {[kind |-> "bad", token |-> EMPTY, side |-> EMPTY]}
          ELSE {})

\* the peer of c writes a line to its socket
PeerWrite(c) ==
    /\ ~crashed
    /\ tc[c].conn # "none" /\ ~hup[c]
    /\ TotalLines(TClients) < scn.frames
    /\ \E l \in Lines(c) :
          /\ inbuf' = [inbuf EXCEPT ![c] = Append(@, l)]
          /\ afterOk' = IF OkCount(c) > 0
                        THEN [afterOk EXCEPT ![c] = Append(@, l)]
                        ELSE afterOk
    /\ nlines' = [nlines EXCEPT ![c] = @ + 1]
    /\ UNCHANGED <<tc, pending, tlock, sock, crashed, hup, order>>
    /\ UNCHANGED <<scn, configVars, relayVars>>

\* the peer of c hangs up
PeerHangup(c) ==
    /\ ~crashed
    /\ tc[c].conn # "none" /\ ~hup[c]
    /\ Cardinality({x \in TClients : hup[x]}) < MaxHangups
    /\ hup' = [hup EXCEPT ![c] = TRUE]
    /\ UNCHANGED <<tc, pending, tlock, sock, inbuf, nlines, crashed, afterOk, order>>
    /\ UNCHANGED <<scn, configVars, relayVars>>

\* HandleConnection: ReadBytes fails (the peer hung up and nothing is left
\* to read, or the connection was closed on this end); the handler returns
\* and handleConnection's deferred Close runs
ReadError(c) ==
    /\ ~crashed
    /\ tc[c].pc = "idle"
    /\ \/ tc[c].conn = "nil"
       \/ tc[c].conn = "open" /\ hup[c] /\ inbuf[c] = <<>>
    /\ tc' = [TClose(tc, c) EXCEPT ![c].pc = "done"]
    /\ UNCHANGED <<pending, tlock, sock, inbuf, nlines, crashed, hup, afterOk, order>>
    /\ UNCHANGED <<scn, configVars, relayVars>>

\* the exit of HandleConnection on an error of handleData, with the
\* deferred Close of handleConnection
HandlerExit(t, c) == [TClose(t, c) EXCEPT ![c].pc = "done"]

\* handleData(data)
handleData(c, data) ==
    IF tc[c].SentOK
    THEN IF tc[c].Buddy # NoClient /\ tc[tc[c].Buddy].conn = "open"
         THEN /\ sock' = Write(sock, tc[c].Buddy, data)
              /\ tc' = tc
         ELSE /\ tc' = HandlerExit(tc, c)
              /\ sock' = sock
    ELSE IF tc[c].GotToken
    THEN /\ sock' = Write(sock, c, Resp("impatient"))
         /\ tc' = HandlerExit(tc, c)
    ELSE IF data.kind \in {"old", "new"}
    THEN \* checkOldToken or checkNewToken passes: processToken, lines 151-154
         /\ tc' = [tc EXCEPT ![c].TokenBuf = Append(@, data),
                             ![c].Token = data.token, ![c].Side = data.side,
                             ![c].Mood = <<"lonely">>, ![c].GotToken = TRUE,
                             ![c].pc = "lock"]
         /\ sock' = sock
    ELSE /\ sock' = Write(sock, c, Resp("bad handshake"))
         /\ tc' = HandlerExit([tc EXCEPT ![c].TokenBuf = Append(@, data)], c)

\* HandleConnection: one turn of the loop.  The new bufio.Reader fills its
\* buffer with what the socket holds - n of the unread lines - and ReadBytes
\* returns the first; the rest of the buffer goes with the Reader
ReadLine(c) ==
    /\ ~crashed
    /\ tc[c].pc = "idle"
    /\ tc[c].conn = "open"
    /\ inbuf[c] # <<>>
    /\ \E n \in 1..Len(inbuf[c]) :
          inbuf' = [inbuf EXCEPT ![c] = SubSeq(@, n + 1, Len(@))]
    /\ handleData(c, inbuf[c][1])
    /\ UNCHANGED <<pending, tlock, nlines, crashed, hup, afterOk, order>>
    /\ UNCHANGED <<scn, configVars, relayVars>>

\* the match rule of processToken
SidesMatch(exSide, side) == exSide = EMPTY \/ side = EMPTY \/ exSide # side

\* processToken: the loop over the candidates left after the swap and trim
RECURSIVE Redundants(_, _, _)
Redundants(t, sk, pot) ==
    IF pot = <<>> THEN [t |-> t, sk |-> sk]
    ELSE LET red == Head(pot).Client
             sk1 == IF t[red].conn = "open" THEN Write(sk, red, Resp("redundent")) ELSE sk
         IN  Redundants(TClose(t, red), sk1, Tail(pot))

Waiter_Appended(pot, side, c) == Append(pot, [Side |-> side, Client |-> c])

\* processToken, its last statement: the list entered under the token
Waiter(pot, side, c) == <<[Side |-> side, Client |-> c]>>

\* processToken from lock.Lock() to the conn.Write of match.Client.connectWith(c)
ProcessToken(c) ==
    /\ ~crashed
    /\ tc[c].pc = "lock"
    /\ tlock = NoClient
    /\ order' = Append(order, c)
    /\ LET token == tc[c].Token
           pot   == pending[token]
           hits  == {i \in 1..Len(pot) : SidesMatch(pot[i].Side, tc[c].Side)}
       IN  IF hits = {}
           THEN \* no entry, or no candidate matches: line 194
                /\ pending' = [pending EXCEPT ![token] = Waiter(pot, tc[c].Side, c)]
                /\ tc' = [tc EXCEPT ![c].pc = "idle"]
                /\ UNCHANGED <<tlock, sock, crashed>>
           ELSE LET i     == CHOOSE x \in hits : \A y \in hits : x <= y
                    \* potentials[i] = potentials[len-1]; match points at slot i
                    match == pot[Len(pot)].Client
                    pot2  == SubSeq([pot EXCEPT ![i] = pot[Len(pot)]], 1, Len(pot) - 1)
                    r     == Redundants(tc, sock, pot2)
                IN  /\ pending' = [pending EXCEPT ![token] = <<>>]
                    /\ IF r.t[match].conn # "open"
                       THEN \* match.Client.conn is nil: connectWith has set
                            \* Mood and Buddy when its Write panics
                            /\ crashed' = TRUE
                            /\ tc' = [r.t EXCEPT ![match].Mood = <<"happy">>,
                                                 ![match].Buddy = c]
                            /\ sock' = r.sk
                            /\ tlock' = tlock
                       ELSE /\ tc' = [r.t EXCEPT ![match].Mood = <<"happy">>,
                                                 ![match].Buddy = c,
                                                 ![c].pc = "ok", ![c].match = match]
                            /\ sock' = Write(r.sk, match, Resp("ok"))
                            /\ tlock' = c
                            /\ crashed' = crashed
    /\ UNCHANGED <<inbuf, nlines, hup, afterOk>>
    /\ UNCHANGED <<scn, configVars, relayVars>>

\* processToken from match.SentOK = true (the end of match.Client.connectWith)
\* through c.connectWith(match.Client) and line 194 to the unlock
ConnectWith(c) ==
    /\ ~crashed
    /\ tc[c].pc = "ok"
    /\ LET m == tc[c].match
       IN  IF tc[c].conn # "open"
           THEN \* c.conn is nil: the Write panics
                /\ crashed' = TRUE
                /\ tc' = [tc EXCEPT ![m].SentOK = TRUE, ![c].Mood = <<"happy">>,
                                    ![c].Buddy = m]
                /\ UNCHANGED <<sock, pending, tlock>>
           ELSE /\ tc' = [tc EXCEPT ![m].SentOK = TRUE, ![c].Mood = <<"happy">>,
                                    ![c].Buddy = m, ![c].SentOK = TRUE,
                                    ![c].pc = "idle", ![c].match = NoClient]
                /\ sock' = Write(sock, c, Resp("ok"))
                /\ pending' = [pending EXCEPT ![tc[c].Token] =
                                  Waiter(@, tc[c].Side, c)]
                /\ tlock' = NoClient
                /\ crashed' = crashed
    /\ UNCHANGED <<inbuf, nlines, hup, afterOk, order>>
    /\ UNCHANGED <<scn, configVars, relayVars>>

TransitNext ==
    \/ \E c \in TClients : Accept(c)
    \/ \E c \in TClients : PeerWrite(c)
    \/ \E c \in TClients : PeerHangup(c)
    \/ \E c \in TClients : ReadError(c)
    \/ \E c \in TClients : ReadLine(c)
    \/ \E c \in TClients : ProcessToken(c)
    \/ \E c \in TClients : ConnectWith(c)

(***************************************************************************)
(* The whole server.                                                       *)
(***************************************************************************)
Init == scn \in Scenarios /\ RelayInit /\ TransitInit

Next == RelayNext \/ TransitNext

Spec == Init /\ [][Next]_vars

(***************************************************************************)
(* The Application methods of the nameplate table called directly.  The    *)
(* calls of Caller run one at a time; a second goroutine, Racer, calls     *)
(* ClaimNameplate, and the statements of its call interleave with the      *)
(* calls of Caller (the calls share the store and take no lock).           *)
(***************************************************************************)
\* the arguments of the calls
CallNames == {<<"1">>, <<"2">>}
CallSides == {<<"L">>, <<"R">>, <<"X">>}
\* the sessions whose histories record the calls
Caller == "c1"
Racer == "c2"

\* the rows of nameplate_sides of the nameplate of this name with claimed=true
ClaimedSides(s, app, name) ==
    LET ids == {n.id : n \in {x \in s.nameplates : x.app_id = app /\ x.name = name}}
    IN  { r.side : r \in { x \in s.nameplate_sides : x.claimed /\ x.nameplate_id \in ids } }

\* the record of a call in the history of the caller
CallLog(op, arg, side, before, err, val) ==
    [hist EXCEPT !.did[Caller] = Append(@,
        [ n |-> Len(@) + 1, op |-> op, arg |-> arg, side |-> side,
          before |-> before, held |-> <<>>, err |-> err, val |-> val ])]

\* the direct calls start on an empty store, or the caller first claims
\* every name of fewer than w digits; in the scenario full the calls start
\* on the store that holds every name of up to three digits
CallName(w) ==
    CASE w = 1 -> "calls" [] w = 2 -> "width2" [] w = 3 -> "width3" [] OTHER -> "full"

CallScenarios ==
    { Scenario(CallName(w), {}, {}, FALSE,
               MaxCalls + 1 - w, 0, FALSE) : w \in 1..3 }

StartWidth == CHOOSE w \in 1..4 : CallName(w) = scn.name

FillTo == IF StartWidth = 4 THEN 0 ELSE Pow10(StartWidth - 1) - 1

FillNames == {Itoa(j) : j \in 1..FillTo}

Filling == Len(hist.did[Caller]) < FillTo

\* a call of the caller panicked: the process is gone
Panicked == \E i \in 1..Len(hist.did[Caller]) : hist.did[Caller][i].err = "panic"

CanCall ==
    /\ ~Filling
    /\ ~Panicked
    /\ Len(hist.did[Caller]) + Len(hist.did[Racer])
          + (IF sess[Racer].pc = "claim" THEN 1 ELSE 0) < FillTo + scn.frames

CanClaim(name, side) ==
    IF Filling THEN name = Itoa(Len(hist.did[Caller]) + 1) /\ side = <<"L">>
    ELSE CanCall /\ name \in CallNames

\* a.ClaimNameplate(name, side)
CallClaimNameplate(app, name, side) ==
    /\ CanClaim(name, side)
    /\ LET r == ClaimNameplate(store, app, name, side, now)
       IN  /\ store' = r.s
           /\ hist' = CallLog("claim", name, side, ClaimedSides(store, app, name),
                              r.err, r.mbid)
    /\ UNCHANGED <<now, lastCleaning, apps, appSeq, mbox, clients, coord, sess,
                   outq, nframes>>
    /\ UNCHANGED <<scn, configVars, taken, transitVars>>

\* a.ReleaseNameplate(name, side); val records whether the nameplate has side
\* rows when the call returns (its name if so)
CallReleaseNameplate(app, name, side) ==
    /\ CanCall
    /\ store' = ReleaseNameplate(store, app, name, side)
    /\ hist' = CallLog("release", name, side, ClaimedSides(store, app, name), "",
                       IF NameplateSides(store', app, name) = {} THEN EMPTY ELSE name)
    /\ UNCHANGED <<now, lastCleaning, apps, appSeq, mbox, clients, coord, sess,
                   outq, nframes>>
    /\ UNCHANGED <<scn, configVars, taken, transitVars>>

\* a.FindNameplate()
CallFindNameplate(app) ==
    /\ CanCall
    /\ \/ \E name \in FindNameplate(store, app) :
             hist' = CallLog("find", EMPTY, EMPTY, GetNameplateIDs(store, app), "", name)
       \/ /\ FindPanics(store, app)
          /\ hist' = CallLog("find", EMPTY, EMPTY, GetNameplateIDs(store, app),
                             "panic", EMPTY)
       \/ /\ FindFails(store, app)
          /\ hist' = CallLog("find", EMPTY, EMPTY, GetNameplateIDs(store, app),
                             "no available nameplate IDs", EMPTY)
    /\ UNCHANGED <<store, now, lastCleaning, apps, appSeq, mbox, clients, coord,
                   sess, outq, nframes>>
    /\ UNCHANGED <<scn, configVars, taken, transitVars>>

\* a.ClaimNameplate(name, side) of Racer up to the SELECT on nameplate_sides
CallClaimSelect(app, name, side) ==
    /\ CanCall
    /\ sess[Racer].pc = "idle"
    /\ LET l == ClaimLookup(store, app, name, side, now)
       IN  /\ store' = l.s
           /\ sess' = [sess EXCEPT ![Racer].pc = "claim",
                         ![Racer].pending =
                            [ app |-> app, name |-> name, side |-> side,
                              before |-> ClaimedSides(store, app, name),
                              npid |-> l.npid, mbid |-> l.mbid, rows |-> l.rows ]]
    /\ UNCHANGED <<now, lastCleaning, apps, appSeq, mbox, clients, coord, outq,
                   nframes>>
    /\ UNCHANGED <<scn, configVars, hist, taken, transitVars>>

\* the same call from there to its return
CallClaimInsert ==
    /\ sess[Racer].pc = "claim"
    /\ LET p == sess[Racer].pending
           r == ClaimFinish(store, p, p.app, p.side, now)
       IN  /\ store' = r.s
           /\ hist' = [hist EXCEPT !.did[Racer] = Append(@,
                          [ n |-> Len(@) + 1, op |-> "claim", arg |-> p.name,
                            side |-> p.side, before |-> p.before, held |-> <<>>,
                            err |-> r.err, val |-> r.mbid ])]
    /\ sess' = [sess EXCEPT ![Racer].pc = "idle", ![Racer].pending = EMPTY]
    /\ UNCHANGED <<now, lastCleaning, apps, appSeq, mbox, clients, coord, outq,
                   nframes>>
    /\ UNCHANGED <<scn, configVars, taken, transitVars>>

CallInit ==
    /\ scn \in CallScenarios
    /\ RelayInit
    /\ TransitInit

CallNext ==
    \E app \in AppIds :
       \/ \E name \in CallNames \cup FillNames, side \in CallSides :
             CallClaimNameplate(app, name, side)
       \/ \E name \in CallNames, side \in CallSides : CallReleaseNameplate(app, name, side)
       \/ CallFindNameplate(app)
       \/ \E name \in CallNames, side \in CallSides : CallClaimSelect(app, name, side)
       \/ CallClaimInsert

CallSpec == CallInit /\ [][CallNext]_vars

\* the store after the calls ClaimNameplate("1", L), ..., ClaimNameplate("999", L)
\* on the empty store at time 0: every name FindNameplate looks for in its
\* first loop is in use
FullStore ==
    [ nameplates      |-> { [id |-> j, app_id |-> a, name |-> Itoa(j),
                             mailbox_id |-> <<"g">> \o Itoa(j)] :
                            j \in 1..(Pow10(3) - 1), a \in AppIds },
      nameplate_sides |-> { [nameplate_id |-> j, claimed |-> TRUE, side |-> <<"L">>,
                             rowid |-> j] : j \in 1..(Pow10(3) - 1) },
      mailboxes       |-> { [id |-> <<"g">> \o Itoa(j), app_id |-> a, updated |-> 0,
                             for_nameplate |-> TRUE] :
                            j \in 1..(Pow10(3) - 1), a \in AppIds },
      mailbox_sides   |-> { [mailbox_id |-> <<"g">> \o Itoa(j), opened |-> TRUE,
                             side |-> <<"L">>, mood |-> EMPTY] : j \in 1..(Pow10(3) - 1) },
      messages        |-> <<>>,
      np_seq          |-> Pow10(3) - 1,
      mb_seq          |-> Pow10(3) - 1 ]

FullScenarios == { Scenario(CallName(4), {}, {}, FALSE, MaxCalls - 1, 0, FALSE) }

\* the direct calls on the full store
FullInit ==
    /\ scn \in FullScenarios
    /\ store = FullStore
    /\ RelayIdle
    /\ TransitInit

FullSpec == FullInit /\ [][CallNext]_vars

(***************************************************************************)
(* The transit handshake, byte by byte.  One peer writes the bytes of a    *)
(* handshake in chunks of any size; a byte is a one-character string.      *)
(***************************************************************************)
NL == "\n"

PleaseRelay == <<"p", "l", "e", "a", "s", "e", " ", "r", "e", "l", "a", "y", " ">>

ForSide == <<" ", "f", "o", "r", " ", "s", "i", "d", "e", " ">>

\* the bytes the peers use are letters, "-", the space and the newline;
\* among them \w matches the letters
IsWord(ch) == ch \notin {" ", "-", NL}

oldTokenLength == Len(PleaseRelay \o <<NL>>) + (32 * 2)

newTokenLength == Len(PleaseRelay \o ForSide \o <<NL>>) + (32 * 2) + (8 * 2)

\* strings.ContainsRune
ContainsRune(s, ch) == \E i \in 1..Len(s) : s[i] = ch

\* s holds the literal p at position from
LiteralAt(s, from, p) ==
    from + Len(p) - 1 <= Len(s) /\ SubSeq(s, from, from + Len(p) - 1) = p

\* s holds n characters of \w at position from
WordsAt(s, from, n) ==
    from + n - 1 <= Len(s) /\ \A i \in from..(from + n - 1) : IsWord(s[i])

\* oldTokenMatcher: ^please relay (\w{64})\n
oldTokenMatcher(s) ==
    LET at == Len(PleaseRelay) + 1
    IN  IF LiteralAt(s, 1, PleaseRelay) /\ WordsAt(s, at, 32 * 2)
           /\ LiteralAt(s, at + 32 * 2, <<NL>>)
        THEN <<SubSeq(s, at, at + 32 * 2 - 1)>>
        ELSE <<>>

\* newTokenMatcher: ^please relay (\w{64}) for side (\w{16})\n
newTokenMatcher(s) ==
    LET at  == Len(PleaseRelay) + 1
        at2 == at + 32 * 2 + Len(ForSide)
    IN  IF LiteralAt(s, 1, PleaseRelay) /\ WordsAt(s, at, 32 * 2)
           /\ LiteralAt(s, at + 32 * 2, ForSide) /\ WordsAt(s, at2, 8 * 2)
           /\ LiteralAt(s, at2 + 8 * 2, <<NL>>)
        THEN <<SubSeq(s, at, at + 32 * 2 - 1), SubSeq(s, at2, at2 + 8 * 2 - 1)>>
        ELSE <<>>

\* checkOldToken
checkOldToken(token) ==
    IF Len(token) < oldTokenLength - 1 /\ ContainsRune(token, NL)
    THEN [code |-> -1, has |-> FALSE, token |-> EMPTY]
    ELSE IF Len(token) < oldTokenLength
    THEN [code |-> 0, has |-> FALSE, token |-> EMPTY]
    ELSE IF oldTokenMatcher(token) # <<>>
    THEN [code |-> 1, has |-> TRUE, token |-> oldTokenMatcher(token)[1]]
    ELSE [code |-> -1, has |-> FALSE, token |-> EMPTY]

\* checkNewToken
checkNewToken(token) ==
    IF Len(token) < newTokenLength - 1 /\ ContainsRune(token, NL)
    THEN [code |-> -1, has |-> FALSE, token |-> EMPTY, side |-> EMPTY]
    ELSE IF Len(token) < newTokenLength
    THEN [code |-> 0, has |-> FALSE, token |-> EMPTY, side |-> EMPTY]
    ELSE IF newTokenMatcher(token) # <<>>
    THEN [code |-> 1, has |-> TRUE, token |-> newTokenMatcher(token)[1],
          side |-> newTokenMatcher(token)[2]]
    ELSE [code |-> -1, has |-> FALSE, token |-> EMPTY, side |-> EMPTY]

\* the handshake the peer of a scenario writes: the old or the new form with
\* scn.frames characters in the token (old) or in the side (new), the last
\* of them outside \w if scn.invalid, and the newline
Chars(n, bad) == [i \in 1..n |-> IF bad /\ i = n THEN "-" ELSE "a"]

Handshake ==
    IF "old" \in scn.kinds
    THEN PleaseRelay \o Chars(scn.frames, scn.invalid) \o <<NL>>
    ELSE PleaseRelay \o Chars(32 * 2, FALSE) \o ForSide
            \o Chars(scn.frames, scn.invalid) \o <<NL>>

ShakeScenarios ==
    { Scenario("shake", {"t1"}, {form}, bad, n, 0, FALSE) :
        form \in {"old", "new"}, bad \in BOOLEAN, n \in 0..(32 * 2 + 2) }

\* the peer of c writes the next k bytes of its handshake
ShakeWrite(c) ==
    /\ tc[c].conn = "open" /\ ~hup[c]
    /\ tc[c].TokenBuf = <<>>
    /\ \E k \in 1..(Len(Handshake) - Len(inbuf[c])) :
          inbuf' = [inbuf EXCEPT ![c] =
                      @ \o SubSeq(Handshake, Len(@) + 1, Len(@) + k)]
    /\ UNCHANGED <<tc, pending, tlock, sock, nlines, crashed, hup, afterOk, order>>
    /\ UNCHANGED <<scn, configVars, relayVars>>

ReadBytes_WhatIsThere(buf) == Len(buf)

\* bufio.Reader.ReadBytes('\n') on the unread bytes buf: the number of bytes
\* it returns, through the first newline; 0 while it waits for more
ReadBytes(buf) ==
    IF ContainsRune(buf, NL)
    THEN CHOOSE i \in 1..Len(buf) : buf[i] = NL /\ \A j \in 1..(i - 1) : buf[j] # NL
    ELSE 0

\* handleData from c.TokenBuf = append(c.TokenBuf, data...) on
handleHandshake(c, data) ==
    LET TokenBuf == tc[c].TokenBuf \o data
        old == checkOldToken(TokenBuf)
        new == checkNewToken(TokenBuf)
    IN  IF old.has
        THEN /\ tc' = [tc EXCEPT ![c].TokenBuf = TokenBuf, ![c].Token = old.token,
                                 ![c].Side = EMPTY, ![c].Mood = <<"lonely">>,
                                 ![c].GotToken = TRUE, ![c].pc = "lock"]
             /\ sock' = sock
        ELSE IF new.has
        THEN /\ tc' = [tc EXCEPT ![c].TokenBuf = TokenBuf, ![c].Token = new.token,
                                 ![c].Side = new.side, ![c].Mood = <<"lonely">>,
                                 ![c].GotToken = TRUE, ![c].pc = "lock"]
             /\ sock' = sock
        ELSE /\ sock' = Write(sock, c, Resp("bad handshake"))
             /\ tc' = HandlerExit([tc EXCEPT ![c].TokenBuf = TokenBuf], c)

\* HandleConnection: ReadBytes returns a line and handleData takes it as the
\* handshake; what the Reader had buffered behind the newline goes with it
ShakeRead(c) ==
    /\ tc[c].pc = "idle" /\ tc[c].conn = "open"
    /\ ~tc[c].SentOK /\ ~tc[c].GotToken
    /\ ReadBytes(inbuf[c]) > 0
    /\ inbuf' = [inbuf EXCEPT ![c] = <<>>]
    /\ handleHandshake(c, SubSeq(inbuf[c], 1, ReadBytes(inbuf[c])))
    /\ UNCHANGED <<pending, tlock, nlines, crashed, hup, afterOk, order>>
    /\ UNCHANGED <<scn, configVars, relayVars>>

\* HandleConnection: ReadBytes fails, the peer having hung up before the
\* newline; the handler returns and handleConnection's deferred Close runs
ShakeReadError(c) ==
    /\ tc[c].pc = "idle" /\ tc[c].conn = "open"
    /\ hup[c] /\ ReadBytes(inbuf[c]) = 0
    /\ tc' = [TClose(tc, c) EXCEPT ![c].pc = "done"]
    /\ inbuf' = [inbuf EXCEPT ![c] = <<>>]
    /\ UNCHANGED <<pending, tlock, sock, nlines, crashed, hup, afterOk, order>>
    /\ UNCHANGED <<scn, configVars, relayVars>>

\* the handshake is followed up to the call of processToken
ShakeInit == scn \in ShakeScenarios /\ RelayInit /\ TransitInit

ShakeNext ==
    \E c \in TClients :
        \/ Accept(c)
        \/ ShakeWrite(c)
        \/ PeerHangup(c)
        \/ ShakeRead(c)
        \/ ShakeReadError(c)

ShakeSpec == ShakeInit /\ [][ShakeNext]_vars

(***************************************************************************)
(* The listener table of a Mailbox, call by call.                          *)
(*                                                                         *)
(* Application.Mailboxes holds *Mailbox and a session holds that pointer.  *)
(* AddListener, RemoveListener and RemoveAllListeners have pointer         *)
(* receivers: they lock the mutex of the shared object, do not wait while  *)
(* they hold it, and are one step each.  AddMessage and broadcast have     *)
(* value receivers (func (m Mailbox)): the call copies the Mailbox, the    *)
(* mutex with it, and m.lock.Lock() of broadcast locks the copy, which no  *)
(* other call shares; the maps of the copy are the maps of the object.     *)
(* broadcast waits inside its loop when a sendBuffer is full, so it is     *)
(* followed here entry by entry.  Its range over the map runs along with   *)
(* the writes of the other calls: an entry added meanwhile is produced or  *)
(* not, and the runtime may end the process (concurrent map iteration and  *)
(* map write).                                                             *)
(***************************************************************************)
LockScenarios ==
    { Scenario("lock", {"c1", "c2"}, {"bind", "open", "add", "close"},
               FALSE, MaxFrames, 0, FALSE) }

\* the listener table of the object a session is bound to
TableOf(c) == mbox[<<sess[c].App, sess[c].Mailbox>>].listeners

\* the sessions whose broadcast is between its Lock and its Unlock
Casting == {c \in Clients : sess[c].pc = "cast"}

\* broadcast: m.lock.Lock() on the copy, and the range begins
BroadcastLock(c) ==
    /\ sess[c].pc = "add"
    /\ sess' = [sess EXCEPT ![c].pc = "cast", ![c].todo = TableOf(c),
                            ![c].seen = TableOf(c)]
    /\ UNCHANGED <<store, now, lastCleaning, apps, appSeq, mbox, clients, coord,
                   outq, nframes>>
    /\ UNCHANGED <<scn, configVars, hist, taken, transitVars>>

\* the range of broadcast comes upon an entry added since it began
BroadcastSees(c) ==
    /\ sess[c].pc = "cast"
    /\ \E l \in TableOf(c) \ sess[c].seen :
          sess' = [sess EXCEPT ![c].todo = @ \cup {l}, ![c].seen = @ \cup {l}]
    /\ UNCHANGED <<store, now, lastCleaning, apps, appSeq, mbox, clients, coord,
                   outq, nframes>>
    /\ UNCHANGED <<scn, configVars, hist, taken, transitVars>>

\* l(msg) of broadcast for one entry: Client.mailboxMessage returns when the
\* session has no conn, and else sends, waiting while the sendBuffer is full
BroadcastCall(c) ==
    /\ sess[c].pc = "cast"
    /\ \E l \in sess[c].todo :
          /\ sess[l[2]].conn # "down" => QueueLen(l[2]) < QueueCap
          /\ outq' = IF sess[l[2]].conn # "down"
                     THEN [outq EXCEPT ![l[2]] =
                             Append(@, Frame("message", sess[c].pending.id, c, sess[c].nin))]
                     ELSE outq
          /\ sess' = [sess EXCEPT ![c].todo = @ \ {l}]
    /\ UNCHANGED <<store, now, lastCleaning, apps, appSeq, mbox, clients, coord, nframes>>
    /\ UNCHANGED <<scn, configVars, hist, taken, transitVars>>

\* the range is over: the deferred Unlock of the copy, then m.Touch()
BroadcastUnlock(c) ==
    /\ sess[c].pc = "cast"
    /\ sess[c].todo = {}
    /\ store' = Touch(store, sess[c].Mailbox, now)
    /\ sess' = [sess EXCEPT ![c].pc = "idle", ![c].pending = EMPTY, ![c].seen = {}]
    /\ UNCHANGED <<now, lastCleaning, apps, appSeq, mbox, clients, coord, outq, nframes>>
    /\ UNCHANGED <<scn, configVars, hist, taken, transitVars>>

\* the sessions that can now write the table a broadcast of c ranges over:
\* by the AddListener of an open, or by the RemoveListener of Client.Close
Mutators(c) ==
    {d \in Clients \ {c} :
        \/ /\ CanRead(d, "open") /\ IsBound(d)
           /\ sess[d].Mailbox = EMPTY /\ sess[d].App = sess[c].App
        \/ /\ d \in Leavers /\ coord = "idle"
           /\ sess[d].conn = "up" /\ sess[d].pc = "idle"
           /\ ClientClose(mbox, sess[d]) # mbox
           /\ <<sess[d].App, sess[d].Mailbox>> = <<sess[c].App, sess[c].Mailbox>>}

\* the write of a table meets the range of a broadcast over it and the
\* runtime ends the process: every connection is gone
MapFault ==
    /\ \E c \in Casting : Mutators(c) # {}
    /\ sess' = [c \in Clients |-> [sess[c] EXCEPT !.conn = "down"]]
    /\ clients' = {}
    /\ UNCHANGED <<store, now, lastCleaning, apps, appSeq, mbox, coord, outq, nframes>>
    /\ UNCHANGED <<scn, configVars, hist, taken, transitVars>>

LockInit == scn \in LockScenarios /\ RelayInit /\ TransitInit

LockNext ==
    \/ \E c \in Clients : Register(c)
    \/ \E c \in Clients : OnConnect(c)
    \/ \E c \in Clients : Unregister(c)
    \/ \E c \in Clients : RecvBind(c)
    \/ \E c \in Clients : RecvOpen(c)
    \/ \E c \in Clients : RecvAdd(c)
    \/ \E c \in Clients : BroadcastLock(c)
    \/ \E c \in Clients : BroadcastSees(c)
    \/ \E c \in Clients : BroadcastCall(c)
    \/ \E c \in Clients : BroadcastUnlock(c)
    \/ \E c \in Clients : RecvClose(c)
    \/ MapFault

LockSpec == LockInit /\ [][LockNext]_vars

(***************************************************************************)
(* Verify and MergeFrom called on the Options object of the server.        *)
(***************************************************************************)
\* the minutes an interval is set to: zero, the defaults, and the values of
\* TestOptionsMerge
Minutes == {0, 2, 5, 10, 11}

\* the Options objects handed to MergeFrom
OptionValues ==
    { [ Mode    |-> m,
        Relay   |-> [ CleaningInterval |-> ci, ChannelExpiration |-> ce ],
        Logging |-> [ Path |-> pa, Level |-> lv, BlurTimes |-> 1 ] ] :
      m \in {"", ModeBoth, ModeRelay, ModeTransit, "DUMMY"},
      ci \in Minutes, ce \in Minutes,
      pa \in {"", "f"}, lv \in {"", "INFO", "LOUD"} }

OptScenarios == { Scenario("options", {}, {}, FALSE, 0, 0, FALSE) }

\* options.Verify()
CallVerify ==
    /\ optErr' = Verify(options)
    /\ UNCHANGED <<scn, options, relayVars, transitVars>>

\* options.MergeFrom(opt)
CallMergeFrom(opt) ==
    /\ options' = MergeFrom(options, opt).o
    /\ optErr' = MergeFrom(options, opt).err
    /\ UNCHANGED <<scn, relayVars, transitVars>>

OptInit == scn \in OptScenarios /\ RelayInit /\ TransitInit

OptNext == CallVerify \/ \E opt \in OptionValues : CallMergeFrom(opt)

OptSpec == OptInit /\ [][OptNext]_vars

(***************************************************************************)
(* The end of a session, statement by statement.  The reader of a session  *)
(* whose read failed waits on the unregister channel; runRelay receives it *)
(* and runs Client.Close, which closes sendBuffer and then sets c.conn to  *)
(* nil; the writer of the session, woken by the close of sendBuffer, reads *)
(* c.conn several times meanwhile, under no lock.  wr is the position of   *)
(* the writer, conn = "closing" is a session whose sendBuffer is closed    *)
(* and whose c.conn is still set.  The goroutines are scheduled fairly.    *)
(***************************************************************************)
LiveScenarios ==
    { Scenario("hangup", {"c1", "c2"}, {"bind", "open"}, FALSE, MaxAnyFrames, 0, FALSE) }

\* watchReads: ReadMessage returns an error, the loop ends, and the deferred
\* send on the unregister channel waits for runRelay
ReadFails(c) ==
    /\ ~crashed
    /\ c \in scn.clients
    /\ sess[c].conn = "up" /\ sess[c].pc = "idle"
    /\ sess' = [sess EXCEPT ![c].pc = "unregister"]
    /\ UNCHANGED <<store, now, lastCleaning, apps, appSeq, mbox, clients, coord, outq,
                   nframes>>
    /\ UNCHANGED <<scn, configVars, hist, taken, transitVars>>

\* case clnt := <-unregister, and Client.Close up to close(c.sendBuffer)
CloseSendBuffer(c) ==
    /\ ~crashed
    /\ coord = "idle"
    /\ sess[c].pc = "unregister"
    /\ c \in clients
    /\ mbox' = ClientClose(mbox, sess[c])
    /\ sess' = [sess EXCEPT ![c].conn = "closing", ![c].pc = "gone"]
    /\ coord' = c
    /\ UNCHANGED <<store, now, lastCleaning, apps, appSeq, clients, outq, nframes>>
    /\ UNCHANGED <<scn, configVars, hist, taken, transitVars>>

\* the rest of Client.Close (c.conn.Close(), c.conn = nil) and of the
\* unregister case (delete(clients, clnt))
CloseConn(c) ==
    /\ ~crashed
    /\ coord = c
    /\ sess[c].conn = "closing"
    /\ sess' = [sess EXCEPT ![c].conn = "down"]
    /\ clients' = clients \ {c}
    /\ coord' = "idle"
    /\ UNCHANGED <<store, now, lastCleaning, apps, appSeq, mbox, outq, nframes>>
    /\ UNCHANGED <<scn, configVars, hist, taken, transitVars>>

\* the writer reads c.conn to call a method of it: a nil pointer ends the
\* process, otherwise the writer goes on at next
UseConn(c, next) ==
    /\ ~crashed
    /\ IF sess[c].conn = "down"
       THEN crashed' = TRUE /\ UNCHANGED sess
       ELSE sess' = [sess EXCEPT ![c].wr = next] /\ UNCHANGED crashed
    /\ UNCHANGED <<tc, pending, tlock, sock, inbuf, nlines, hup, afterOk, order>>
    /\ UNCHANGED <<store, now, lastCleaning, apps, appSeq, mbox, clients, coord, outq,
                   nframes>>
    /\ UNCHANGED <<scn, configVars, hist, taken>>

\* the writer compares c.conn with nil: it goes on at set if c.conn is set
\* and at unset if not
TestConn(c, set, unset) ==
    /\ ~crashed
    /\ sess' = [sess EXCEPT ![c].wr = IF sess[c].conn = "down" THEN unset ELSE set]
    /\ UNCHANGED <<store, now, lastCleaning, apps, appSeq, mbox, clients, coord, outq,
                   nframes>>
    /\ UNCHANGED <<scn, configVars, hist, taken, transitVars>>

\* watchWrites: the receive from the closed sendBuffer returns, and
\* "if c.conn == nil { return }"
WriterWakes(c) ==
    /\ sess[c].wr = "select"
    /\ sess[c].conn \in {"closing", "down"}
    /\ TestConn(c, "deadline", "deferred")

\* c.conn.SetWriteDeadline(...)
WriterSetsDeadline(c) == sess[c].wr = "deadline" /\ UseConn(c, "close message")

\* !ok: c.conn.WriteMessage(websocket.CloseMessage, ...), and return
WriterWritesClose(c) == sess[c].wr = "close message" /\ UseConn(c, "deferred")

\* the deferred function: ticker.Stop() and "if c.conn != nil"
WriterDeferred(c) == sess[c].wr = "deferred" /\ TestConn(c, "conn close", "done")

\* the deferred function: c.conn.Close()
WriterClosesConn(c) == sess[c].wr = "conn close" /\ UseConn(c, "done")

LiveInit == scn \in LiveScenarios /\ RelayInit /\ TransitInit

\* the steps of the relay described before, as long as the process lives
LiveRegister(c) == ~crashed /\ Register(c)
LiveOnConnect(c) == ~crashed /\ sess[c].conn = "up" /\ OnConnect(c)
LiveRecvBind(c) == ~crashed /\ RecvBind(c)
LiveRecvOpen(c) == ~crashed /\ RecvOpen(c)

\* the steps of runRelay, and of the writer of a session
CoordinatorStep ==
    \/ \E c \in Clients : LiveOnConnect(c)
    \/ \E c \in Clients : CloseSendBuffer(c)
    \/ \E c \in Clients : CloseConn(c)

WriterStep(c) ==
    \/ WriterWakes(c)
    \/ WriterSetsDeadline(c)
    \/ WriterWritesClose(c)
    \/ WriterDeferred(c)
    \/ WriterClosesConn(c)

LiveNext ==
    \/ \E c \in Clients : LiveRegister(c)
    \/ \E c \in Clients : LiveOnConnect(c)
    \/ \E c \in Clients : CloseSendBuffer(c)
    \/ \E c \in Clients : CloseConn(c)
    \/ \E c \in Clients : WriterWakes(c)
    \/ \E c \in Clients : WriterSetsDeadline(c)
    \/ \E c \in Clients : WriterWritesClose(c)
    \/ \E c \in Clients : WriterDeferred(c)
    \/ \E c \in Clients : WriterClosesConn(c)
    \/ \E c \in Clients : LiveRecvBind(c)
    \/ \E c \in Clients : LiveRecvOpen(c)
    \/ \E c \in Clients : ReadFails(c)

LiveSpec ==
    /\ LiveInit
    /\ [][LiveNext]_vars
    /\ WF_vars(CoordinatorStep)
    /\ \A c \in Clients : WF_vars(WriterStep(c))

(***************************************************************************)
(* Properties of the rendezvous relay.                                     *)
(***************************************************************************)
\* the side rows of a nameplate, and of a mailbox
SidesOfNameplate(npid) == {r \in store.nameplate_sides : r.nameplate_id = npid}
SidesOfMailbox(id) == {r \in store.mailbox_sides : r.mailbox_id = id}

\* every mailbox id the store mentions
KnownMailboxes ==
    MailboxIds(store) \cup {r.mailbox_id : r \in store.mailbox_sides}
        \cup {store.messages[i].mailbox_id : i \in 1..Len(store.messages)}

\* no handler is between two of its steps
Quiet == \A c \in Clients : sess[c].pc = "idle"

\* the elements of a sequence
Range(q) == {q[i] : i \in 1..Len(q)}

\* C1: in every reachable state a nameplate has at most two distinct sides
\* in nameplate_sides.
C1_AtMostTwoNameplateSides ==
    \A n \in store.nameplates :
        Cardinality({r.side : r \in SidesOfNameplate(n.id)}) <= 2

\* C2: in every reachable state a mailbox that exists has at most two
\* mailbox_sides rows with opened = true.
C2_AtMostTwoOpenedSides ==
    \A m \in store.mailboxes :
        Cardinality({r \in SidesOfMailbox(m.id) : r.opened}) <= 2

\* a close of mailbox id returned without error
ClosedBySomeone(id) ==
    \E c \in Clients : \E e \in Range(hist.did[c]) :
        e.op = "close" /\ e.arg = id /\ e.err = ""

\* C3: once every side that opened a mailbox has closed it (a close of it
\* returned and no side row of it is still opened), the mailbox row, its side
\* rows and its messages are no longer in the store.
C3_ClosedMailboxDeleted ==
    \A id \in KnownMailboxes :
        (ClosedBySomeone(id) /\ \A r \in SidesOfMailbox(id) : ~r.opened)
            => /\ id \notin MailboxIds(store)
               /\ SidesOfMailbox(id) = {}
               /\ \A i \in 1..Len(store.messages) : store.messages[i].mailbox_id # id

\* the ids of the message frames placed on the queue of c, in order
MsgFrames(c) ==
    LET q == SelectSeq(outq[c], LAMBDA f : f.type = "message")
    IN  [i \in 1..Len(q) |-> q[i].val]

\* the place of a message in the order of insertion
InsertedAt(id) == CHOOSE i \in 1..Len(store.messages) : store.messages[i].id = id

\* C4: for every subscribed session the message frames placed on its queue
\* are the messages inserted while it was subscribed, one frame each, in the
\* order of insertion, also when adds of several sessions interleave.
C4_FramesInInsertionOrder ==
    Quiet =>
      \A c \in Clients :
        LET fr == MsgFrames(c)
        IN  /\ Range(hist.due[c]) \subseteq Range(fr)
            /\ \A i, j \in 1..Len(fr) :
                  i < j /\ (\E k \in 1..Len(store.messages) : store.messages[k].id = fr[i])
                        /\ (\E k \in 1..Len(store.messages) : store.messages[k].id = fr[j])
                     => InsertedAt(fr[i]) < InsertedAt(fr[j])

\* the places of the ack of frame k of session c on its queue
AckPos(c, k) ==
    {i \in 1..Len(outq[c]) : outq[c][i].type = "ack" /\ outq[c][i].n = k}

\* C5: every frame that parses gets exactly one ack, carrying the frame's
\* id, placed on the sender's queue before any response, error or message
\* frame the frame causes; a frame that does not parse gets no ack.
C5_AckFirst ==
    \A c \in Clients : \A k \in 1..sess[c].nin :
        IF k \in hist.rejected[c]
        THEN AckPos(c, k) = {}
        ELSE /\ Cardinality(AckPos(c, k)) = 1
             /\ \A a \in AckPos(c, k) :
                   /\ outq[c][a].val = FrameId(c, k)
                   /\ \A i \in 1..Len(outq[c]) :
                         (outq[c][i].from = c /\ outq[c][i].n = k /\ i # a) => a < i

\* a frame caused by another frame is on a queue only if that frame's ack is
\* on its sender's queue (so the ack was placed no later)
C5_AckBeforeCaused ==
    \A d \in Clients : \A i \in 1..Len(outq[d]) :
        LET f == outq[d][i]
        IN  (f.n > 0 /\ f.n \notin hist.rejected[f.from]) => AckPos(f.from, f.n) # {}

C5_AckOrder == C5_AckFirst /\ C5_AckBeforeCaused

\* C5 witness: a session one of whose frames did not parse and got no ack,
\* and another of whose frames was acked and then answered
C5_Witness ==
    \E c \in Clients :
        /\ \E k \in hist.rejected[c] : AckPos(c, k) = {}
        /\ \E i, j \in 1..Len(outq[c]) :
              /\ i < j
              /\ outq[c][i].type = "ack"
              /\ outq[c][j].type \in {"pong", "error", "nameplates"}
              /\ outq[c][j].n = outq[c][i].n

(***************************************************************************)
(* Properties of the transit relay.                                        *)
(***************************************************************************)
\* the server has come to rest: it died, or no reader is inside handleData
\* and every line written was read
TransitAtRest ==
    \/ crashed
    \/ \A c \in TClients : tc[c].pc \in {"idle", "done"} /\ inbuf[c] = <<>>

\* the chunks in q that a's peer wrote after "ok" was sent to a
AfterOkIn(q, a) == SelectSeq(q, LAMBDA x : x \in Range(afterOk[a]))

\* C6: two connections present the same token with sides that match, no
\* other connection presents it, no peer hangs up and each peer writes
\* nothing between its handshake and its ok: each is sent ok exactly once,
\* each is the other's buddy, and the chunks one writes after its ok reach
\* the other's socket, all of them and in the order written.
C6_PairedAndPiped ==
    \A a, b \in TClients :
        ( /\ a # b
          /\ \A o \in TClients \ {a, b} : nlines[o] = 0
          /\ \A o \in TClients : ~hup[o]
          /\ tc[a].GotToken /\ tc[b].GotToken
          /\ Len(afterOk[a]) = nlines[a] - 1 /\ Len(afterOk[b]) = nlines[b] - 1
          /\ tc[a].Token = tc[b].Token
          /\ SidesMatch(tc[a].Side, tc[b].Side)
          /\ TransitAtRest )
        => /\ OkCount(a) = 1 /\ OkCount(b) = 1
           /\ tc[a].Buddy = b /\ tc[b].Buddy = a
           /\ AfterOkIn(sock[b], a) = afterOk[a]
           /\ AfterOkIn(sock[a], b) = afterOk[b]

\* C7: two connections on a token are paired; a third then presents the
\* same token, every side empty, nobody writes anything else and nobody hangs
\* up: the third is sent the redundant notice and closed and is never sent
\* ok, and the first two stay each other's buddy, open, with one ok each.
C7_ThirdIsRedundant ==
    \A a, b, c \in TClients :
        ( /\ order = <<a, b, c>>
          /\ \A o \in TClients : nlines[o] = 1 /\ ~hup[o] /\ tc[o].Side = EMPTY
          /\ tc[a].Token = tc[b].Token /\ tc[b].Token = tc[c].Token
          /\ TransitAtRest )
        => /\ \E i \in 1..Len(sock[c]) : sock[c][i].kind = "redundent"
           /\ tc[c].conn = "nil"
           /\ OkCount(c) = 0
           /\ tc[a].Buddy = b /\ tc[b].Buddy = a
           /\ tc[a].conn = "open" /\ tc[b].conn = "open"
           /\ OkCount(a) = 1 /\ OkCount(b) = 1

(***************************************************************************)
(* Properties of claim and open.                                           *)
(***************************************************************************)
\* the calls of ClaimNameplate session c made
ClaimCalls(c) == SelectSeq(hist.did[c], LAMBDA e : e.op \in {"claim", "allocate"})

\* the mailbox ids the claimed frames on the queue of c carry
ClaimedFrames(c) ==
    LET q == SelectSeq(outq[c], LAMBDA f : f.type = "claimed")
    IN  [i \in 1..Len(q) |-> q[i].val]

\* C8: two sessions bound to one application with distinct sides each send
\* one claim of the same nameplate, and no other session claims or allocates:
\* both claims succeed, both sessions are sent the same mailbox id, and the
\* sides of the nameplate are the sides of the two sessions.
C8_BothClaimsSucceed ==
    \A c, d \in Clients : \A name \in ClaimNames :
        ( /\ c # d
          /\ IsBound(c) /\ IsBound(d)
          /\ sess[c].AppID = sess[d].AppID /\ sess[c].Side # sess[d].Side
          /\ \A x \in {c, d} :
                /\ Len(hist.did[x]) = 1
                /\ hist.did[x][1].op = "claim" /\ hist.did[x][1].arg = name
          /\ \A x \in Clients \ {c, d} : hist.did[x] = <<>> )
        => /\ hist.did[c][1].err = "" /\ hist.did[d][1].err = ""
           /\ Len(ClaimedFrames(c)) = 1 /\ ClaimedFrames(c) = ClaimedFrames(d)
           /\ NameplateSides(store, sess[c].AppID, name) = {sess[c].Side, sess[d].Side}

\* C9: a claim of a nameplate that has two distinct sides, made for a third
\* side, fails with NameplateCrowded.
C9_ThirdSideCrowded ==
    \A c \in Clients : \A e \in Range(ClaimCalls(c)) :
        (Cardinality(e.before) = 2 /\ e.side \notin e.before)
            => e.err = "NameplateCrowded"

\* the ids of the message frames placed on the queue of c after the ack of
\* its frame k, in order
MsgFramesAfter(c, k) ==
    LET a == CHOOSE i \in AckPos(c, k) : TRUE
        q == SelectSeq(SubSeq(outq[c], a + 1, Len(outq[c])),
                       LAMBDA f : f.type = "message")
    IN  [i \in 1..Len(q) |-> q[i].val]

\* s is t with some elements left out
RECURSIVE IsSubSeq(_, _)
IsSubSeq(s, t) ==
    IF s = <<>> THEN TRUE
    ELSE IF t = <<>> THEN FALSE
    ELSE IF Head(s) = Head(t) THEN IsSubSeq(Tail(s), Tail(t))
    ELSE IsSubSeq(s, Tail(t))

\* C10: an open of a mailbox that holds messages replays them to the opening
\* session: once the open has returned, a message frame for each message the
\* mailbox held is on the session's queue after the ack of the open, in the
\* order of server_rx.
C10_OpenReplays ==
    Quiet =>
      \A c \in Clients : \A e \in Range(hist.did[c]) :
        (e.op = "open" /\ e.err = "" /\ e.held # <<>>)
            => IsSubSeq(e.held, MsgFramesAfter(c, e.n))

(***************************************************************************)
(* Properties of OnMessage on a session that is not bound.                 *)
(***************************************************************************)
\* OnMessage of session c reads a parsed frame that is neither ping nor bind
\* while c is not bound
UnboundFrame(c) ==
    /\ ~IsBound(c)
    /\ \/ RecvList(c) \/ RecvAllocate(c) \/ RecvClaim(c) \/ RecvRelease(c)
       \/ RecvOpen(c) \/ RecvAdd(c) \/ RecvClose(c)

\* C11: on a session that is not bound, a frame of any type other than ping
\* and bind places the ack and then the error frame BindFirst on the queue;
\* the handler does not run: the session, the store, the registry and the
\* mailbox objects are as before.
C11_BindFirst ==
    [][\A c \in Clients :
          UnboundFrame(c) =>
            /\ store' = store /\ apps' = apps /\ mbox' = mbox
            /\ sess' = [sess EXCEPT ![c].nin = @ + 1]
            /\ outq' = [outq EXCEPT ![c] = @ \o
                          << AckFrame(c, K(c)),
                             Frame("error", <<"bind first">>, c, K(c)) >>]]_vars

\* an unbound session was sent the ack and BindFirst for its last frame
C11_Witness ==
    \E c \in Clients :
        /\ ~IsBound(c) /\ sess[c].nin > 0 /\ Len(outq[c]) >= 2
        /\ outq[c][Len(outq[c]) - 1] = AckFrame(c, sess[c].nin)
        /\ outq[c][Len(outq[c])] = Frame("error", <<"bind first">>, c, sess[c].nin)

(***************************************************************************)
(* Properties of the Application methods of the nameplate table.           *)
(***************************************************************************)
\* the store holds no nameplate of this name and no side row of one
NameplateAbsent(s, app, name) ==
    /\ ~\E n \in s.nameplates : n.app_id = app /\ n.name = name
    /\ NameplateSides(s, app, name) = {}

\* C12: ReleaseNameplate(N, side) called when side is the only side of N with
\* claimed=true leaves neither the nameplate row nor a side row of it; called
\* again it finds no nameplate and returns without changing the store (its
\* return is nil on each path that is not a store failure).
C12_ReleaseIdempotent ==
    [][\A app \in AppIds : \A name \in CallNames : \A side \in CallSides :
          CallReleaseNameplate(app, name, side) =>
            /\ ClaimedSides(store, app, name) = {side}
                  => NameplateAbsent(store', app, name)
            /\ NameplateAbsent(store, app, name) => store' = store]_vars

\* a side claimed a nameplate, was its only claimant, and released it twice
C12_Witness ==
    \E i \in 1..(Len(hist.did[Caller]) - 2) :
        LET e == hist.did[Caller][i]
            f == hist.did[Caller][i + 1]
            g == hist.did[Caller][i + 2]
        IN  /\ scn.name = "calls"
            /\ e.op = "claim" /\ e.err = "" /\ e.before = {}
            /\ f.op = "release" /\ f.arg = e.arg /\ f.side = e.side
            /\ f.before = {e.side} /\ f.val = EMPTY
            /\ g.op = "release" /\ g.arg = e.arg /\ g.side = e.side
            /\ g.before = {} /\ g.val = EMPTY
            /\ NameplateAbsent(store, <<"a">>, e.arg)

(***************************************************************************)
(* Properties of the one-shot flags of a session.                          *)
(***************************************************************************)
\* how many frames of this type are on the queue of c
Sends(c, type) == Len(SelectSeq(outq[c], LAMBDA f : f.type = type))

\* session c reads a frame of a type whose flag is set, and err is the error
\* of that type
RepeatedFrame(c, err) ==
    \/ sess[c].Allocated /\ RecvAllocate(c) /\ err = "already allocated"
    \/ sess[c].Claimed /\ RecvClaim(c) /\ err = "already claimed"
    \/ sess[c].Released /\ RecvRelease(c) /\ err = "already released"
    \/ sess[c].Closed /\ RecvClose(c) /\ err = "already closed"

AlreadyErrors ==
    {"already allocated", "already claimed", "already released", "already closed"}

\* C13: within a session each of allocate, claim, release and close succeeds
\* at most once; a flag that is set stays set; a later frame of that type is
\* answered with the Already... error of its type and leaves the store as
\* it was.
C13_OneShot ==
    [][\A c \in Clients :
          /\ sess[c].Allocated => sess'[c].Allocated
          /\ sess[c].Claimed => sess'[c].Claimed
          /\ sess[c].Released => sess'[c].Released
          /\ sess[c].Closed => sess'[c].Closed
          /\ \A type \in {"allocated", "claimed", "released", "closed"} :
                Sends(c, type) <= 1
          /\ \A err \in AlreadyErrors :
                RepeatedFrame(c, err) =>
                   /\ store' = store
                   /\ outq' = [outq EXCEPT ![c] = @ \o
                                 << AckFrame(c, K(c)),
                                    Frame("error", <<err>>, c, K(c)) >>]]_vars

\* a session released once and its second release was refused
C13_Witness ==
    \E c \in Clients :
        /\ sess[c].Released /\ Sends(c, "released") = 1
        /\ outq[c][Len(outq[c])] = Frame("error", <<"already released">>, c, sess[c].nin)

(***************************************************************************)
(* Properties of the cleaning loop.                                        *)
(***************************************************************************)
\* session c has opened mailbox id, has not closed it, and its listener is
\* registered on the Mailbox object it opened
ListensOn(c, id) ==
    /\ sess[c].conn = "up" /\ id # EMPTY /\ sess[c].Mailbox = id
    /\ <<sess[c].App, id>> \in DOMAIN mbox
    /\ <<sess[c].listenerHandle, c>> \in mbox[<<sess[c].App, id>>].listeners

\* what the store holds of mailbox id: the row without its timestamp, the
\* sides and the messages
Holds(s, id) ==
    [ row   |-> {[id |-> m.id, app_id |-> m.app_id] : m \in {x \in s.mailboxes : x.id = id}},
      sides |-> {r \in s.mailbox_sides : r.mailbox_id = id},
      msgs  |-> SelectSeq(s.messages, LAMBDA m : m.mailbox_id = id) ]

\* C14: a mailbox that has a registered listener when a cleaning tick runs
\* is not deleted by that tick: its row, its sides and its messages are in
\* the store when CleanApps has returned.
C14_ListenedNotReaped ==
    [][CleaningTick =>
          \A c \in Clients : \A id \in MailboxIds(store) :
              ListensOn(c, id) => Holds(store', id) = Holds(store, id)]_vars

(***************************************************************************)
(* Properties of the fan-out.                                              *)
(***************************************************************************)
\* C15: the fan-out never blocks the producer: a session that is inside
\* AddMessage, past the INSERT, and whose own queue has room, can complete
\* the broadcast whatever the state of the queues of the other sessions
\* subscribed to the mailbox, a full one included.
C15_FanOutNeverBlocks ==
    \A c \in Clients :
        (sess[c].pc = "add" /\ QueueLen(c) < QueueCap) => ENABLED AddBroadcast(c)

(***************************************************************************)
(* Properties of the transit relay: closing.                               *)
(***************************************************************************)
\* connectWith made b the buddy of a and has returned for both
WerePaired(a, b) == a # b /\ tc[a].Buddy = b /\ tc[a].SentOK /\ tc[b].SentOK

\* C16: once two transit clients are paired, closing either closes the
\* other: in every state (Close has returned in each; the server has not
\* died) one of a pair is closed exactly if the other is.
C16_PairClosesTogether ==
    ~crashed =>
       \A a, b \in TClients :
          WerePaired(a, b) => ((tc[a].conn = "nil") <=> (tc[b].conn = "nil"))

(***************************************************************************)
(* Properties of ClaimNameplate.                                           *)
(***************************************************************************)
\* C17: ClaimNameplate(name, side) fails with ReclaimNameplate whenever the
\* side holds a row with claimed=true on the nameplate when it is called,
\* and nameplate_sides lists a side at most once for a nameplate.
C17_ReclaimAndListedOnce ==
    /\ \A c \in {Caller, Racer} : \A e \in Range(hist.did[c]) :
          (e.op = "claim" /\ e.side \in e.before) => e.err = "ReclaimNameplate"
    /\ \A r1, r2 \in store.nameplate_sides :
          (r1.nameplate_id = r2.nameplate_id /\ r1.side = r2.side) => r1 = r2

(***************************************************************************)
(* Properties of the error frames.                                         *)
(***************************************************************************)
\* the error frames on the queue of c
ErrorFrames(c) == {outq[c][i] : i \in {j \in 1..Len(outq[c]) : outq[c][j].type = "error"}}

\* C18: every error frame placed on a queue carries the message of a client
\* error or the generic internal error.
C18_ErrorsMasked ==
    \A c \in Clients : \A f \in ErrorFrames(c) :
        f.val[1] \in ClientErrors \cup {"internal"}

\* a failure that is not a client error was sent as internal, and a client
\* error was sent as itself
C18_Witness ==
    \E c \in Clients :
        /\ \E f \in ErrorFrames(c) : f.val = <<"internal">>
        /\ \E f \in ErrorFrames(c) : f.val[1] \in ClientErrors

(***************************************************************************)
(* Properties of FindNameplate.                                            *)
(***************************************************************************)
\* the names of w digits
NamesOfWidth(w) == {Itoa(j) : j \in Pow10(w - 1)..(Pow10(w) - 1)}

\* the logged calls of FindNameplate that returned a name
Finds == {e \in Range(hist.did[Caller]) : e.op = "find" /\ e.err = ""}

\* C19: the name FindNameplate returns is not among the names of the app at
\* the call, and no name of fewer digits was free at the call.
C19_FindFreeSmallest ==
    \A e \in Finds :
        /\ e.val \notin e.before
        /\ Len(e.val) \in 1..3
        /\ e.val \in NamesOfWidth(Len(e.val))
        /\ \A w \in 1..(Len(e.val) - 1) : NamesOfWidth(w) \subseteq e.before

\* a name of three digits was returned with the 99 shorter names taken
C19_Witness ==
    \E e \in Finds : Len(e.val) = 3 /\ Cardinality(e.before) = 99

(***************************************************************************)
(* Properties of the pending map of the transit relay.                     *)
(***************************************************************************)
\* the clients entered in the pending map under a token
PendingClients(tk) == {pending[tk][i].Client : i \in 1..Len(pending[tk])}

\* C20: once processToken has connected a matched pair, neither client of the
\* pair is entered in the pending map under their token.
C20_ConnectedNotPending ==
    \A c \in TClients :
        (tc[c].SentOK /\ tc[c].Buddy # NoClient) => c \notin PendingClients(tc[c].Token)

\* no candidate under the token of c matches the side of c
NoMatch(c) ==
    \A i \in 1..Len(pending[tc[c].Token]) :
        ~SidesMatch(pending[tc[c].Token][i].Side, tc[c].Side)

\* C21: a processToken that finds no match leaves under the token the list of
\* the new client alone, the client lonely with GotToken set, and writes to
\* no socket and sets no SentOK.
C21_NoMatchReplaces ==
    [][\A c \in TClients :
          (ProcessToken(c) /\ NoMatch(c)) =>
              /\ pending'[tc[c].Token] = <<[Side |-> tc[c].Side, Client |-> c]>>
              /\ tc'[c].Mood = <<"lonely">>
              /\ tc'[c].GotToken
              /\ sock' = sock
              /\ \A d \in TClients : tc'[d].SentOK = tc[d].SentOK]_vars

\* a second client of the same side took the place of the waiter
C21_Witness ==
    \E c, d \in TClients : \E tk \in Tokens :
        /\ c # d
        /\ pending[tk] = <<[Side |-> tc[c].Side, Client |-> c]>>
        /\ tc[c].Side # EMPTY
        /\ tc[d].GotToken /\ tc[d].Token = tk /\ tc[d].Side = tc[c].Side
        /\ tc[d].conn = "open" /\ ~tc[d].SentOK
        /\ order = <<d, c>>

\* c was sent impatient before any ok
ImpatientBeforeOk(c) ==
    \E i \in 1..Len(sock[c]) :
        /\ sock[c][i].kind = "impatient"
        /\ \A j \in 1..(i - 1) : sock[c][j].kind # "ok"

\* C22: a client that was sent impatient before any ok is closed and is
\* never paired: it gets no buddy, no ok and no SentOK.
C22_ImpatientNeverPaired ==
    \A c \in TClients :
        ImpatientBeforeOk(c) =>
            /\ tc[c].conn = "nil"
            /\ tc[c].Buddy = NoClient
            /\ ~tc[c].SentOK
            /\ OkCount(c) = 0

(***************************************************************************)
(* Properties of the transit handshake.                                    *)
(***************************************************************************)
\* c was sent bad handshake
Rejected(c) == \E i \in 1..Len(sock[c]) : sock[c][i].kind = "bad handshake"

\* the handshake the peer writes is one of the two forms in full
WellFormed ==
    /\ ~scn.invalid
    /\ scn.frames = (IF "old" \in scn.kinds THEN 32 * 2 ELSE 8 * 2)

\* C23: while the bytes received from a client hold no newline the client is
\* neither sent bad handshake nor accepted; bad handshake is sent only for
\* bytes that hold a newline and are not a handshake in full, be it that the
\* newline came before the minimum length or that the pattern fails; and
\* only a handshake in full is accepted.
C23_BuffersUntilNewline ==
    \A c \in scn.clients :
        /\ (tc[c].TokenBuf = <<>> /\ ~ContainsRune(inbuf[c], NL))
              => (~Rejected(c) /\ ~tc[c].GotToken /\ sock[c] = <<>>)
        /\ Rejected(c)
              => /\ ContainsRune(tc[c].TokenBuf, NL)
                 /\ ~WellFormed
                 /\ \/ Len(tc[c].TokenBuf) < oldTokenLength
                    \/ oldTokenMatcher(tc[c].TokenBuf) = <<>>
        /\ tc[c].GotToken => (WellFormed /\ tc[c].TokenBuf = Handshake)

\* a line of the full length of the old form was rejected for its pattern,
\* all but its last byte having arrived before
C23_Witness ==
    \E c \in scn.clients :
        /\ Rejected(c)
        /\ Len(tc[c].TokenBuf) = oldTokenLength
        /\ "old" \in scn.kinds

(***************************************************************************)
(* Properties of release and of cleaning.                                  *)
(***************************************************************************)
\* C24: a release leaves the mailboxes, their sides, the messages and the
\* listeners as they were.
C24_ReleaseKeepsMailbox ==
    [][\A c \in Clients :
          RecvRelease(c) =>
              /\ store'.mailboxes = store.mailboxes
              /\ store'.mailbox_sides = store.mailbox_sides
              /\ store'.messages = store.messages
              /\ mbox' = mbox]_vars

\* a session released the last side of its nameplate, the nameplate is gone,
\* and its mailbox is in the store with a message and the session listening
C24_Witness ==
    \E c \in Clients :
        /\ sess[c].Released /\ sess[c].Nameplate # EMPTY
        /\ sess[c].Nameplate \notin GetNameplateIDs(store, sess[c].AppID)
        /\ sess[c].Mailbox \in MailboxIds(store)
        /\ \E i \in 1..Len(store.messages) :
              store.messages[i].mailbox_id = sess[c].Mailbox
        /\ ListensOn(c, sess[c].Mailbox)

\* the tick runs Cleanup for app a: a has rows and is in the registry
Cleans(a) == CleaningTick /\ a \in GetAllApps(store) /\ apps[a] # 0

\* what is left of store s once the mailboxes old and what hangs on them
\* are deleted
Without(s, old) ==
    LET gone == {n.id : n \in {x \in s.nameplates : x.mailbox_id \in old}}
    IN  [s EXCEPT
            !.mailboxes = {m \in @ : m.id \notin old},
            !.mailbox_sides = {r \in @ : r.mailbox_id \notin old},
            !.messages = SelectSeq(@, LAMBDA m : m.mailbox_id \notin old),
            !.nameplates = {n \in @ : n.id \notin gone},
            !.nameplate_sides = {r \in @ : r.nameplate_id \notin gone}]

\* the mailboxes of app a with updated at most since
Expired(s, a, since) ==
    {m.id : m \in {x \in s.mailboxes : x.app_id = a /\ x.updated <= since}}

\* C25 as stated: Cleanup deletes the mailboxes of the app whose updated is
\* at most since, with their messages, sides and nameplates, and changes
\* nothing else.
C25_CleanupByUpdated ==
    [][\A a \in AppIds :
          Cleans(a) => store' = Without(store, Expired(store, a, lastCleaning))]_vars

\* the store with the mailboxes that have listeners touched
Touched(s, a) ==
    [s EXCEPT !.mailboxes =
        { IF m.id \in Listened(apps[a]) THEN [m EXCEPT !.updated = now] ELSE m :
            m \in @ }]

\* C25, amended: Cleanup first sets updated to now on the mailboxes that have
\* listeners, then deletes the mailboxes of the app whose updated is at most
\* since, with their messages, sides and nameplates, and changes nothing else.
C25_CleanupAfterTouch ==
    [][\A a \in AppIds :
          Cleans(a) =>
              store' = Without(Touched(store, a),
                               Expired(Touched(store, a), a, lastCleaning))]_vars

\* a cleaning at time 1 deleted the mailbox of a session's nameplate, with
\* the nameplate, and kept the mailbox the session opened at time 1
C25_Witness ==
    \E c \in Clients :
        /\ lastCleaning = 1
        /\ sess[c].Nameplate # EMPTY /\ ~sess[c].Released
        /\ sess[c].Nameplate \notin GetNameplateIDs(store, sess[c].AppID)
        /\ \E m \in store.mailboxes : m.id = sess[c].Mailbox /\ m.updated = 1

\* C26: a cleaning leaves, for every app id of the store, no mailbox with
\* updated at most since, whether or not the app is in the registry, and
\* drops from the registry the apps of the store that are no longer in use,
\* and only those.
C26_CleansEveryStoredApp ==
    [][CleaningTick =>
          \A a \in GetAllApps(store) :
              /\ Expired(store', a, lastCleaning) = {}
              /\ StillInUse(store', a) => apps'[a] = apps[a]
              /\ ~StillInUse(store', a) => apps'[a] = 0]_vars

(***************************************************************************)
(* Properties of a session after a failure, a close and a teardown.        *)
(***************************************************************************)
\* the step is the OnMessage of c for a frame whose handler failed
HandlerFailed(c) ==
    /\ sess'[c].nin = sess[c].nin + 1
    /\ Len(outq'[c]) > Len(outq[c])
    /\ outq'[c][Len(outq'[c])].type = "error"

\* the frames the step placed on the queue of c
Placed(c) == SubSeq(outq'[c], Len(outq[c]) + 1, Len(outq'[c]))

\* C27: the OnMessage of a frame whose handler fails places one error frame
\* on the queue and leaves the session's app, side, nameplate, mailbox and
\* latches as they were, and the session up and reading.
C27_FailureKeepsSession ==
    [][\A c \in Clients :
          HandlerFailed(c) =>
              /\ Cardinality({i \in 1..Len(Placed(c)) : Placed(c)[i].type = "error"}) = 1
              /\ sess'[c].App = sess[c].App /\ sess'[c].Side = sess[c].Side
              /\ sess'[c].Nameplate = sess[c].Nameplate
              /\ sess'[c].Mailbox = sess[c].Mailbox
              /\ sess'[c].Allocated = sess[c].Allocated
              /\ sess'[c].Claimed = sess[c].Claimed
              /\ sess'[c].Released = sess[c].Released
              /\ sess'[c].Closed = sess[c].Closed
              /\ sess'[c].conn = "up" /\ sess'[c].pc = "idle"]_vars

\* c is in the listener table of the Mailbox object at key, in tables mb
Registered(mb, key, c) == key \in DOMAIN mb /\ \E l \in mb[key].listeners : l[2] = c

\* the step is a HandleClose of c that succeeded
ClosedNow(c) == RecvClose(c) /\ ~sess[c].Closed /\ sess'[c].Closed

\* C28: a close that succeeds leaves the session without a bound mailbox and
\* in the listener table of no mailbox, and a message another session adds
\* while the closed session has no bound mailbox places no frame on the
\* queue of the closed session.
C28_CloseDetaches ==
    [][\A c \in Clients :
          /\ ClosedNow(c) =>
                /\ sess'[c].Mailbox = EMPTY
                /\ \A key \in DOMAIN mbox' : ~Registered(mbox', key, c)
          /\ (sess[c].Closed /\ sess[c].Mailbox = EMPTY) =>
                \A d \in Clients \ {c} : AddBroadcast(d) => outq'[c] = outq[c]]_vars

\* C29: a session whose socket was torn down is in the listener table of no
\* mailbox and is not in the live set.
C29_TeardownDetaches ==
    \A c \in Clients :
        sess[c].conn = "down" =>
            /\ c \notin clients
            /\ \A key \in DOMAIN mbox : ~Registered(mbox, key, c)

(***************************************************************************)
(* Properties of the listener table.                                       *)
(***************************************************************************)
\* C30: while a broadcast ranges over the listener table of a mailbox no
\* step changes that table, and after a close that leaves no side of the
\* mailbox open the table of the mailbox is empty.
C30_ListenersExclusive ==
    [][/\ \A c \in Casting : TableOf(c)' = TableOf(c)
       /\ \A c \in Clients :
            (ClosedNow(c) /\ ~ \E r \in store'.mailbox_sides :
                                  r.mailbox_id = sess[c].Mailbox /\ r.opened)
                => mbox'[<<sess[c].App, sess[c].Mailbox>>].listeners = {}]_vars

(***************************************************************************)
(* Properties of FindNameplate with every short name in use.               *)
(***************************************************************************)
\* the logged calls of FindNameplate made with every name of one, two and
\* three digits in use
FullFinds ==
    {e \in Range(hist.did[Caller]) :
        e.op = "find" /\ \A w \in 1..3 : NamesOfWidth(w) \subseteq e.before}

\* C31: a call of FindNameplate made with every name of one, two and three
\* digits in use returns a name of at least four digits that is not in
\* use, or the error that no nameplate is available.
C31_FallbackReturns ==
    \A e \in FullFinds :
        \/ e.err = "" /\ Len(e.val) >= 4 /\ e.val \notin e.before
        \/ e.err = "no available nameplate IDs" /\ e.val = EMPTY

(***************************************************************************)
(* Properties of the verification of the options.                          *)
(***************************************************************************)
\* C32: when a call of Verify or MergeFrom has returned, it has returned an
\* error if the channel expiration of the object does not exceed its
\* cleaning interval, and the defaults are accepted.
C32_ExpirationExceedsInterval ==
    /\ optErr # NotCalled =>
          (options.Relay.ChannelExpiration <= options.Relay.CleaningInterval
              => optErr # "")
    /\ Verify(DefaultOptions) = ""

(***************************************************************************)
(* Properties of a claim after a release.                                  *)
(***************************************************************************)
\* the call the caller made in this step returned without an error
Succeeded ==
    /\ Len(hist'.did[Caller]) = Len(hist.did[Caller]) + 1
    /\ hist'.did[Caller][Len(hist'.did[Caller])].err = ""

\* C33: when ClaimNameplate(name, side) has returned without an error, the
\* row of nameplate_sides of that nameplate and side has claimed = true.
C33_ClaimedAfterClaim ==
    [][\A app \in AppIds, name \in CallNames, side \in CallSides :
          (CallClaimNameplate(app, name, side) /\ Succeeded)
              => side \in ClaimedSides(store', app, name)]_vars

(***************************************************************************)
(* Properties of closed transit clients and of buddy links.                *)
(***************************************************************************)
\* C34: no client entered in the pending map has a closed connection.
C34_ClosedNotPending ==
    \A tk \in Tokens : \A c \in PendingClients(tk) : tc[c].conn # "nil"

\* C35: when no processToken is under way and the process has not panicked,
\* the buddy of a client's buddy is the client, every client was sent ok at
\* most once, and a client with SentOK has GotToken and a buddy.
C35_BuddiesSymmetric ==
    (tlock = NoClient /\ ~crashed /\ \A c \in TClients : tc[c].pc # "ok") =>
        \A a \in TClients :
            /\ tc[a].Buddy # NoClient => tc[tc[a].Buddy].Buddy = a
            /\ OkCount(a) <= 1
            /\ tc[a].SentOK => (tc[a].GotToken /\ tc[a].Buddy # NoClient)

(***************************************************************************)
(* Properties of allocate, of the welcome and of the store.                *)
(***************************************************************************)
\* the calls of AllocateNameplate of session c that returned a nameplate
Allocs(c) == {e \in Range(hist.did[c]) : e.op = "allocate" /\ e.err = ""}

\* C36: in a run without release and cleaning, two sessions of one app with
\* different sides are never allocated the same nameplate or nameplates of
\* the same mailbox.
C36_AllocatesDistinct ==
    \A c, d \in Clients :
        (c # d /\ sess[c].AppID = sess[d].AppID /\ sess[c].Side # sess[d].Side) =>
            \A e \in Allocs(c), f \in Allocs(d) : e.arg # f.arg /\ e.val # f.val

\* C37: the first frame ever put on the sendBuffer of a session is its
\* welcome (outq keeps every frame that was put on the queue).
C37_WelcomeFirst ==
    \A c \in Clients : outq[c] # <<>> => outq[c][1].type = "welcome"

\* C38: every nameplate row, message row and mailbox_sides row of the store
\* names a mailbox row that exists.
C38_RowsNameMailboxes ==
    /\ \A n \in store.nameplates : n.mailbox_id \in MailboxIds(store)
    /\ \A r \in store.mailbox_sides : r.mailbox_id \in MailboxIds(store)
    /\ \A i \in 1..Len(store.messages) : store.messages[i].mailbox_id \in MailboxIds(store)

\* the (mailbox, side) pairs that have a mailbox_sides row in s
SideKeys(s) == {<<r.mailbox_id, r.side>> : r \in s.mailbox_sides}

\* C39: handling a close of a session that has no mailbox bound adds no
\* mailbox row and no mailbox_sides row to the store.
C39_CloseCreatesNoRows ==
    [][\A c \in Clients :
          (RecvClose(c) /\ sess[c].Mailbox = EMPTY) =>
              /\ MailboxIds(store') \subseteq MailboxIds(store)
              /\ SideKeys(store') \subseteq SideKeys(store)]_vars

(***************************************************************************)
(* Properties of the end of a session.                                     *)
(***************************************************************************)
\* runRelay waits on its channels
Serving == coord = "idle" /\ ~crashed

\* C40: under fair scheduling a session whose read failed is in the end out
\* of the live set with its Close done, and runRelay comes back to waiting
\* on its channels again and again.
C40_ReadFailureUnregisters ==
    /\ \A c \in Clients :
          (sess[c].pc = "unregister") ~> (c \notin clients /\ sess[c].conn = "down")
    /\ []<>Serving

=============================================================================
